---- MODULE Spec2Model ----
(***************************************************************************)
(* A model of copilot-codespace: the SSH client (internal/ssh), its tmux   *)
(* backed sessions, and the MCP tool handlers (internal/mcp/server.go).    *)
(*                                                                         *)
(* The module holds several specifications over one set of variables:     *)
(*   Spec         SetupMultiplexing followed by concurrent callers of Exec *)
(*   SpecLive     Spec with the scheduling of the lock and of round trips  *)
(*   SpecSession  the tmux sessions on the target and the session calls    *)
(*   SpecEdit     EditFile on the files of the target                      *)
(*   SpecTool     the tool handlers, one tool call at a time               *)
(*   SpecParse    parseInput on one input string                           *)
(*   SpecGrep     Grep on a source tree of the target                      *)
(*   SpecShared   concurrent EditFile calls on one file                    *)
(*   SpecGlob     Glob on a directory tree of the target                   *)
(*   SpecCreate   CreateFile on a directory tree                           *)
(*   SpecWrite    WriteSession, one round trip per segment                 *)
(*   SpecRewrite  rewriteMCPServerForSSH and rewriteHooksForSSH            *)
(* Each specification moves only its own group of variables; the other     *)
(* groups stay at their initial value.                                     *)
(***************************************************************************)
EXTENDS Integers, Sequences, FiniteSets, TLC

\* ------------------------------------------------------------------------
\* Bounds
\* ------------------------------------------------------------------------
NumCallers == 2
MaxExit == 2

Callers == 1..NumCallers
ExitCodes == 1..MaxExit
NoCaller == 0

\* ------------------------------------------------------------------------
\* State of the Client and of the calls to Exec
\* ------------------------------------------------------------------------
VARIABLES
    phase,          \* runMCPServer: "starting" (before SetupMultiplexing) or "serving"
    setupResult,    \* what SetupMultiplexing returned: "none", "nil" or "err"
    setupStep,      \* the step SetupMultiplexing stopped at ("ok" when it completed)
    sshConfigPath,  \* Client.sshConfigPath
    sshHost,        \* Client.sshHost
    controlSocket,  \* Client.controlSocket
    mu,             \* Client.mu: the caller holding it, or NoCaller
    pc,             \* per caller: position inside Exec
    ctxDone,        \* per caller: ctx.Err() != nil
    child,          \* the callers whose local child process (ssh or gh) is running
    execPath,       \* per caller: the command line Exec built, "ssh", "gh" or "none"
    ret             \* per caller: what Exec returned

execVars == <<phase, setupResult, setupStep, sshConfigPath, sshHost, controlSocket,
              mu, pc, ctxDone, child, execPath, ret>>

\* ------------------------------------------------------------------------
\* State of the target's tmux server and of the session call in progress
\* ------------------------------------------------------------------------
VARIABLES
    tmuxInstalled,  \* whether "command -v tmux" succeeds on the target
    sessions,       \* the tmux sessions on the target, by session name
    sOp,            \* the session call in progress (kind "none" when there is none)
    sRes,           \* what the last completed session call returned
    started         \* ids whose StartSession returned (called on a target with tmux,
                    \* an unused name, working round trips) with no StopSession since

sessVars == <<tmuxInstalled, sessions, sOp, sRes, started>>

\* ------------------------------------------------------------------------
\* State of the target's files and of the EditFile call in progress
\* ------------------------------------------------------------------------
VARIABLES
    files,          \* the content of each path on the target (Missing when absent)
    eOp,            \* the EditFile call in progress (kind "none" when there is none)
    eRes            \* what the last completed EditFile call returned

editVars == <<files, eOp, eRes>>

\* ------------------------------------------------------------------------
\* State of the tool server
\* ------------------------------------------------------------------------
VARIABLES
    call,           \* the tool call a handler has just handled and what it returned
                    \* (tool "none" while the server waits for the next request)
    tools           \* the names of the tools registered with the server

toolVars == <<call, tools>>

\* ------------------------------------------------------------------------
\* State of a call to parseInput
\* ------------------------------------------------------------------------
VARIABLES
    pIn,            \* parseInput's argument
    pOrder,         \* the order in which this call's range visits specialKeys
    pRest,          \* the local variable input: what is left to split
    pSegs,          \* the local variable segments
    pPc             \* "loop" inside the for loop, "done" once parseInput returned

parseVars == <<pIn, pOrder, pRest, pSegs, pPc>>

\* ------------------------------------------------------------------------
\* State of the target's source tree and of the Grep call in progress
\* ------------------------------------------------------------------------
VARIABLES
    gTarget,        \* whether rg is installed, and the matching lines of each file
    gOp,            \* the Grep call in progress (step "none" when there is none)
    gRes            \* what the last completed Grep call returned

grepVars == <<gTarget, gOp, gRes>>

\* ------------------------------------------------------------------------
\* State of a rewrite of a server descriptor or of a hooks file
\* ------------------------------------------------------------------------
VARIABLES
    rIn,            \* the arguments of rewriteMCPServerForSSH / rewriteHooksForSSH
    rOut            \* what the function returned (kind "none" before it returns)

rewriteVars == <<rIn, rOut>>

\* ------------------------------------------------------------------------
\* State of the target's directory tree and of the last CreateFile call
\* ------------------------------------------------------------------------
VARIABLES
    cFs,            \* the directories of the target and the content of each path
    cRes            \* what the last CreateFile call was given and returned

createVars == <<cFs, cRes>>

\* ------------------------------------------------------------------------
\* State of a WriteSession call and of the session it writes to
\* ------------------------------------------------------------------------
VARIABLES
    wOp,            \* the WriteSession call: its arguments, segments and position
    wSent,          \* the round trips the call has made, in order
    wDelivered,     \* the arguments tmux send-keys was given during the call
    wRan,           \* what else the target's shell ran during the call
    wLive           \* whether the session written to is registered on the target

writeVars == <<wOp, wSent, wDelivered, wRan, wLive>>

\* ------------------------------------------------------------------------
\* State of one file of the target and of concurrent EditFile calls on it
\* ------------------------------------------------------------------------
VARIABLES
    kStart,         \* the content of the file before any of the calls
    kFile,          \* the content of the file
    kOp             \* per caller: its EditFile call, position and result

sharedVars == <<kStart, kFile, kOp>>

\* ------------------------------------------------------------------------
\* State of the target's tree and of the Glob call in progress
\* ------------------------------------------------------------------------
VARIABLES
    fTarget,        \* whether fd is installed, and CODESPACE_WORKDIR of the server
    fOp,            \* the Glob call in progress (step "none" when there is none)
    fRes            \* what the last completed Glob call returned

globVars == <<fTarget, fOp, fRes>>

vars == <<execVars, sessVars, editVars, toolVars, parseVars, grepVars, rewriteVars, createVars, writeVars, sharedVars, globVars>>

\* What each group of actions leaves alone.
notExec == <<sessVars, editVars, toolVars, parseVars, grepVars, rewriteVars, createVars, writeVars, sharedVars, globVars>>
notSess == <<execVars, editVars, toolVars, parseVars, grepVars, rewriteVars, createVars, writeVars, sharedVars, globVars>>
notEdit == <<execVars, sessVars, toolVars, parseVars, grepVars, rewriteVars, createVars, writeVars, sharedVars, globVars>>
notTool == <<execVars, sessVars, editVars, parseVars, grepVars, rewriteVars, createVars, writeVars, sharedVars, globVars>>
notParse == <<execVars, sessVars, editVars, toolVars, grepVars, rewriteVars, createVars, writeVars, sharedVars, globVars>>
notGrep == <<execVars, sessVars, editVars, toolVars, parseVars, rewriteVars, createVars, writeVars, sharedVars, globVars>>
notRewrite == <<execVars, sessVars, editVars, toolVars, parseVars, grepVars, createVars, writeVars, sharedVars, globVars>>
notCreate == <<execVars, sessVars, editVars, toolVars, parseVars, grepVars, rewriteVars, writeVars, sharedVars, globVars>>
notWrite == <<execVars, sessVars, editVars, toolVars, parseVars, grepVars, rewriteVars, createVars, sharedVars, globVars>>
notShared == <<execVars, sessVars, editVars, toolVars, parseVars, grepVars, rewriteVars, createVars, writeVars, globVars>>
notGlob == <<execVars, sessVars, editVars, toolVars, parseVars, grepVars, rewriteVars, createVars, writeVars, sharedVars>>

\* The paths SetupMultiplexing derives from codespaceName, and the alias gh reports.
ConfigPathOf == "codespace-workdirs/.ssh-config-cs"
SocketPathOf == "codespace-workdirs/.ssh-cs"
HostAlias == "cs.develop-xxx"

NoRet == [exitCode |-> 0, err |-> "none", from |-> NoCaller]

ExecInit ==
    /\ phase = "starting"
    /\ setupResult = "none"
    /\ setupStep = "none"
    /\ sshConfigPath = ""
    /\ sshHost = ""
    /\ controlSocket = ""
    /\ mu = NoCaller
    /\ pc = [c \in Callers |-> "idle"]
    /\ ctxDone = [c \in Callers |-> FALSE]
    /\ child = {}
    /\ execPath = [c \in Callers |-> "none"]
    /\ ret = [c \in Callers |-> NoRet]

\* The Client at rest, serving in fallback mode (for the other specifications).
ExecIdle ==
    /\ phase = "serving"
    /\ setupResult = "nil"
    /\ setupStep = "master"
    /\ sshConfigPath = ""
    /\ sshHost = HostAlias
    /\ controlSocket = SocketPathOf
    /\ mu = NoCaller
    /\ pc = [c \in Callers |-> "idle"]
    /\ ctxDone = [c \in Callers |-> FALSE]
    /\ child = {}
    /\ execPath = [c \in Callers |-> "none"]
    /\ ret = [c \in Callers |-> NoRet]

\* The steps at which SetupMultiplexing can fail, in source order, and "ok".
SetupSteps == {"homeDir", "mkdir", "ghConfig", "parseHost", "writeConfig", "master", "ok"}

\* SetupMultiplexing, called once by runMCPServer, which logs a returned error
\* as a warning and goes on to serve.  failAt is the first step that fails.
SetupMultiplexing(failAt) ==
    /\ phase = "starting"
    /\ setupStep' = failAt
    /\ phase' = "serving"
    /\ IF failAt \in {"homeDir", "mkdir"}
       THEN /\ setupResult' = "err"
            /\ UNCHANGED <<sshConfigPath, sshHost, controlSocket>>
       ELSE /\ controlSocket' = SocketPathOf
            /\ sshHost' = IF failAt \in {"ghConfig", "parseHost"} THEN "" ELSE HostAlias
            /\ sshConfigPath' = IF failAt = "master" THEN "" ELSE ConfigPathOf
            /\ setupResult' = IF failAt \in {"master", "ok"} THEN "nil" ELSE "err"
    /\ UNCHANGED <<mu, pc, ctxDone, child, execPath, ret>>
    /\ UNCHANGED notExec

\* A handler calls Exec: the caller reaches c.mu.Lock().
ExecCall(c) ==
    /\ phase = "serving"
    /\ pc[c] = "idle"
    /\ pc' = [pc EXCEPT ![c] = "lock"]
    /\ ctxDone' = [ctxDone EXCEPT ![c] = FALSE]
    /\ execPath' = [execPath EXCEPT ![c] = "none"]
    /\ ret' = [ret EXCEPT ![c] = NoRet]
    /\ UNCHANGED <<phase, setupResult, setupStep, sshConfigPath, sshHost, controlSocket,
                   mu, child>>
    /\ UNCHANGED notExec

\* ExecLock without the mutual exclusion: Lock() returns although mu is held.
ExecLockNoMutex(c) ==
    /\ pc[c] = "lock"
    /\ mu' = c
    /\ execPath' = [execPath EXCEPT ![c] = IF sshConfigPath # "" THEN "ssh" ELSE "gh"]
    /\ pc' = [pc EXCEPT ![c] = "built"]
    /\ UNCHANGED <<phase, setupResult, setupStep, sshConfigPath, sshHost, controlSocket,
                   ctxDone, child, ret>>
    /\ UNCHANGED notExec

\* c.mu.Lock() returns; Exec picks the command line from sshConfigPath.
ExecLock(c) ==
    /\ pc[c] = "lock"
    /\ mu = NoCaller
    /\ mu' = c
    /\ execPath' = [execPath EXCEPT ![c] = IF sshConfigPath # "" THEN "ssh" ELSE "gh"]
    /\ pc' = [pc EXCEPT ![c] = "built"]
    /\ UNCHANGED <<phase, setupResult, setupStep, sshConfigPath, sshHost, controlSocket,
                   ctxDone, child, ret>>
    /\ UNCHANGED notExec

\* cmd.Run() starts the local child process.
ExecStart(c) ==
    /\ pc[c] = "built"
    /\ child' = child \cup {c}
    /\ pc' = [pc EXCEPT ![c] = "running"]
    /\ UNCHANGED <<phase, setupResult, setupStep, sshConfigPath, sshHost, controlSocket,
                   mu, ctxDone, execPath, ret>>
    /\ UNCHANGED notExec

\* A failed start after which the Client gives up multiplexing.
ExecStartFailsAndFallsBack(c) ==
    /\ pc[c] = "built"
    /\ ret' = [ret EXCEPT ![c] = [exitCode |-> -1, err |-> "failed to execute", from |-> c]]
    /\ mu' = NoCaller
    /\ pc' = [pc EXCEPT ![c] = "idle"]
    /\ sshConfigPath' = ""
    /\ UNCHANGED <<phase, setupResult, setupStep, sshHost, controlSocket,
                   ctxDone, child, execPath>>
    /\ UNCHANGED notExec

\* cmd.Run() fails without a child process (the client binary cannot be started,
\* or the context was done before the start).
ExecStartFails(c) ==
    /\ pc[c] = "built"
    /\ ret' = [ret EXCEPT ![c] =
                 [exitCode |-> -1,
                  err |-> IF ctxDone[c] THEN "cancelled" ELSE "failed to execute",
                  from |-> c]]
    /\ mu' = NoCaller
    /\ pc' = [pc EXCEPT ![c] = "idle"]
    /\ UNCHANGED <<phase, setupResult, setupStep, sshConfigPath, sshHost, controlSocket,
                   ctxDone, child, execPath>>
    /\ UNCHANGED notExec

\* The caller's context is cancelled or its deadline passes.
Cancel(c) ==
    /\ pc[c] \in {"lock", "built", "running"}
    /\ ~ctxDone[c]
    /\ ctxDone' = [ctxDone EXCEPT ![c] = TRUE]
    /\ UNCHANGED <<phase, setupResult, setupStep, sshConfigPath, sshHost, controlSocket,
                   mu, pc, child, execPath, ret>>
    /\ UNCHANGED notExec

\* A return that leaves mu locked.
ExecReturnKeepsLock(c, code) ==
    /\ pc[c] = "running"
    /\ c \in child
    /\ child' = child \ {c}
    /\ ret' = [ret EXCEPT ![c] = [exitCode |-> code, err |-> "nil", from |-> c]]
    /\ pc' = [pc EXCEPT ![c] = "idle"]
    /\ UNCHANGED <<phase, setupResult, setupStep, sshConfigPath, sshHost, controlSocket,
                   mu, ctxDone, execPath>>
    /\ UNCHANGED notExec

\* cmd.Run() returns: the child has exited with status code (0 for a nil runErr),
\* or was killed because the context is done.  The deferred Unlock runs.
ExecReturn(c, code) ==
    /\ pc[c] = "running"
    /\ c \in child
    /\ child' = child \ {c}
    /\ ret' = [ret EXCEPT ![c] =
                 IF code # 0 /\ ctxDone[c]
                 THEN [exitCode |-> -1, err |-> "cancelled", from |-> c]
                 ELSE [exitCode |-> code, err |-> "nil", from |-> c]]
    /\ mu' = NoCaller
    /\ pc' = [pc EXCEPT ![c] = "idle"]
    /\ UNCHANGED <<phase, setupResult, setupStep, sshConfigPath, sshHost, controlSocket,
                   ctxDone, execPath>>
    /\ UNCHANGED notExec

ExecNext ==
    \/ \E s \in SetupSteps : SetupMultiplexing(s)
    \/ \E c \in Callers : ExecCall(c)
    \/ \E c \in Callers : ExecLock(c)
    \/ \E c \in Callers : ExecStart(c)
    \/ \E c \in Callers : ExecStartFails(c)
    \/ \E c \in Callers : Cancel(c)
    \/ \E c \in Callers, code \in {0} \cup ExitCodes : ExecReturn(c, code)


\* ------------------------------------------------------------------------
\* Strings (Go's strings package, on TLA+ strings)
\* ------------------------------------------------------------------------

\* strings.HasPrefix(s, prefix)
HasPrefix(s, prefix) ==
    Len(s) >= Len(prefix) /\ SubSeq(s, 1, Len(prefix)) = prefix

\* Whether sub occurs in s at offset i (1-based).
OccursAt(s, sub, i) ==
    i + Len(sub) - 1 <= Len(s) /\ SubSeq(s, i, i + Len(sub) - 1) = sub

\* strings.Contains(s, sub)
Contains(s, sub) == \E i \in 1..(Len(s) + 1) : OccursAt(s, sub, i)

\* The first offset (1-based) at which sub occurs in s, 0 when it does not
\* (strings.Index, which counts from 0 and gives -1).
Index(s, sub) ==
    IF Contains(s, sub)
    THEN CHOOSE i \in 1..(Len(s) + 1) :
            OccursAt(s, sub, i) /\ \A j \in 1..(i - 1) : ~OccursAt(s, sub, j)
    ELSE 0

\* strings.Count(s, sub): the number of non-overlapping instances of sub in s,
\* Len(s) + 1 for an empty sub.
RECURSIVE Count(_, _)
Count(s, sub) ==
    IF sub = "" THEN Len(s) + 1
    ELSE IF Index(s, sub) = 0 THEN 0
    ELSE 1 + Count(SubSeq(s, Index(s, sub) + Len(sub), Len(s)), sub)

\* A replacement that inserts new and forgets to drop old.
ReplaceKeepsOld(s, old, new) ==
    IF Index(s, old) = 0 THEN s
    ELSE SubSeq(s, 1, Index(s, old) - 1) \o new \o SubSeq(s, Index(s, old), Len(s))

\* strings.Replace(s, old, new, 1): the first instance of old replaced by new
\* (an empty old matches at the beginning of s).
Replace(s, old, new) ==
    IF Index(s, old) = 0 THEN s
    ELSE SubSeq(s, 1, Index(s, old) - 1) \o new
            \o SubSeq(s, Index(s, old) + Len(old), Len(s))

IsSpace(ch) == ch \in {" ", "\n", "\t", "\r"}

\* strings.TrimSpace(s)
RECURSIVE TrimSpace(_)
TrimSpace(s) ==
    IF s = "" THEN ""
    ELSE IF IsSpace(SubSeq(s, 1, 1)) THEN TrimSpace(SubSeq(s, 2, Len(s)))
    ELSE IF IsSpace(SubSeq(s, Len(s), Len(s))) THEN TrimSpace(SubSeq(s, 1, Len(s) - 1))
    ELSE s

\* ------------------------------------------------------------------------
\* base64 (encoding/base64 StdEncoding, and base64(1) on the target)
\* ------------------------------------------------------------------------
Lower == "abcdefghijklmnopqrstuvwxyz"

\* The byte of a character and the character of a byte (newline and a..z).
Ord(ch) ==
    IF ch = "\n" THEN 10
    ELSE 96 + (CHOOSE i \in 1..Len(Lower) : SubSeq(Lower, i, i) = ch)

Chr(b) == IF b = 10 THEN "\n" ELSE SubSeq(Lower, b - 96, b - 96)

encodeStd == "ABCDEFGHIJKLMNOPQRSTUVWXYZabcdefghijklmnopqrstuvwxyz0123456789+/"

B64Char(v) == SubSeq(encodeStd, v + 1, v + 1)

B64Val(ch) == (CHOOSE i \in 1..64 : SubSeq(encodeStd, i, i) = ch) - 1

\* base64.StdEncoding.EncodeToString
RECURSIVE EncodeToString(_)
EncodeToString(s) ==
    IF s = "" THEN ""
    ELSE LET b1 == Ord(SubSeq(s, 1, 1))
             b2 == IF Len(s) >= 2 THEN Ord(SubSeq(s, 2, 2)) ELSE 0
             b3 == IF Len(s) >= 3 THEN Ord(SubSeq(s, 3, 3)) ELSE 0
             c1 == B64Char(b1 \div 4)
             c2 == B64Char((b1 % 4) * 16 + b2 \div 16)
             c3 == B64Char((b2 % 16) * 4 + b3 \div 64)
             c4 == B64Char(b3 % 64)
         IN IF Len(s) = 1 THEN c1 \o c2 \o "=="
            ELSE IF Len(s) = 2 THEN c1 \o c2 \o c3 \o "="
            ELSE c1 \o c2 \o c3 \o c4 \o EncodeToString(SubSeq(s, 4, Len(s)))

\* The decoders skip newlines.
RECURSIVE DropNewlines(_)
DropNewlines(s) ==
    IF s = "" THEN ""
    ELSE IF SubSeq(s, 1, 1) \in {"\n", "\r"} THEN DropNewlines(SubSeq(s, 2, Len(s)))
    ELSE SubSeq(s, 1, 1) \o DropNewlines(SubSeq(s, 2, Len(s)))

RECURSIVE DecodeQuads(_)
DecodeQuads(e) ==
    IF Len(e) < 4 THEN ""
    ELSE LET v1 == B64Val(SubSeq(e, 1, 1))
             v2 == B64Val(SubSeq(e, 2, 2))
             p3 == SubSeq(e, 3, 3) = "="
             p4 == SubSeq(e, 4, 4) = "="
             v3 == IF p3 THEN 0 ELSE B64Val(SubSeq(e, 3, 3))
             v4 == IF p4 THEN 0 ELSE B64Val(SubSeq(e, 4, 4))
             ch1 == Chr(v1 * 4 + v2 \div 16)
             ch2 == Chr((v2 % 16) * 16 + v3 \div 4)
             ch3 == Chr((v3 % 4) * 64 + v4)
         IN IF p3 THEN ch1
            ELSE IF p4 THEN ch1 \o ch2
            ELSE ch1 \o ch2 \o ch3 \o DecodeQuads(SubSeq(e, 5, Len(e)))

\* base64.StdEncoding.DecodeString, and base64 -d on the target.
DecodeString(e) == DecodeQuads(DropNewlines(e))

\* ------------------------------------------------------------------------
\* What Exec returns for one round trip
\* ------------------------------------------------------------------------

\* How a round trip ends: "ok" the remote shell ran the command; "exit255" the
\* ssh client itself failed (it exits 255, an *exec.ExitError); "err" cmd.Run()
\* failed otherwise or the context was done.
Transport == {"ok", "exit255", "err"}

\* Exec's return values when the remote command would exit with code and print out.
ExecResult(t, code, out) ==
    CASE t = "ok" -> [stdout |-> out, exitCode |-> code, err |-> "nil"]
      [] t = "exit255" -> [stdout |-> "", exitCode |-> 255, err |-> "nil"]
      [] OTHER -> [stdout |-> "", exitCode |-> -1, err |-> "exec"]

\* ------------------------------------------------------------------------
\* tmux sessions
\* ------------------------------------------------------------------------
tmuxPrefix == "copilot-"

\* A naming that gives every session the same name.
tmuxSessionNameFlat(sessionID) == tmuxPrefix

tmuxSessionName(sessionID) == tmuxPrefix \o sessionID

NumIds == 2
IdLetters == "abcd"
SessionIDs == {SubSeq(IdLetters, 1, i) : i \in 1..NumIds}

\* Sessions other users of the target create: one named like a session id, one
\* that holds the prefix but does not start with it.
ForeignNames == {"a", "xcopilot-a"}

\* One command that prints and exits at once, one that keeps running.
Commands == {"echo hello", "tail -f log"}

\* What the command prints on its pane.
OutputOf(cmd) == IF cmd = "echo hello" THEN "hello" ELSE ""

\* Whether the command exits by itself.
Exits(cmd) == cmd = "echo hello"

exitedMarker == "\n[session exited]"

NoOp == [kind |-> "none", id |-> "", cmd |-> "", step |-> "", pre |-> FALSE, out |-> ""]
NoRes == [kind |-> "none", id |-> "", err |-> "nil", out |-> "", lines |-> {},
          seen |-> {}, pre |-> FALSE]

SessIdle ==
    /\ tmuxInstalled = TRUE
    /\ sessions = [n \in {} |-> 0]
    /\ sOp = NoOp
    /\ sRes = NoRes
    /\ started = {}

SessInit ==
    /\ tmuxInstalled \in BOOLEAN
    /\ sessions = [n \in {} |-> 0]
    /\ sOp = NoOp
    /\ sRes = NoRes
    /\ started = {}

Exists(name) == name \in DOMAIN sessions

WithSession(name, rec) ==
    [m \in DOMAIN sessions \cup {name} |-> IF m = name THEN rec ELSE sessions[m]]

WithoutSession(name) == [m \in DOMAIN sessions \ {name} |-> sessions[m]]

\* The session that tmux takes "-t name" to mean: the session of exactly that
\* name when there is one, otherwise the one session whose name starts with
\* name; none when no name or more than one name starts with it.
Targets(name) ==
    IF Exists(name) THEN {name}
    ELSE LET starts == {n \in DOMAIN sessions : HasPrefix(n, name)}
         IN IF Cardinality(starts) = 1 THEN starts ELSE {}

HasTarget(name) == Targets(name) # {}

TargetOf(name) == CHOOSE n \in Targets(name) : TRUE

\* A session call returns.
Finish(err, out, lines, seen, pre) ==
    /\ sRes' = [kind |-> sOp.kind, id |-> sOp.id, err |-> err, out |-> out,
                lines |-> lines, seen |-> seen, pre |-> pre]
    /\ sOp' = NoOp
    /\ started' = IF sOp.kind = "start" /\ pre THEN started \cup {sOp.id} ELSE started

\* StartSession(sessionID, command) is called.  pre records the claim's
\* precondition: tmux is installed and the name is unused.
StartSession(id, cmd) ==
    /\ sOp.kind = "none"
    /\ sOp' = [kind |-> "start", id |-> id, cmd |-> cmd, step |-> "check",
               pre |-> tmuxInstalled /\ ~Exists(tmuxSessionName(id)), out |-> ""]
    /\ sRes' = NoRes
    /\ UNCHANGED <<tmuxInstalled, sessions, started>>
    /\ UNCHANGED notSess

\* ensureTmux: "command -v tmux"; only the exit code is looked at.
EnsureTmuxCheck(t) ==
    /\ sOp.kind = "start" /\ sOp.step = "check"
    /\ LET r == ExecResult(t, IF tmuxInstalled THEN 0 ELSE 1, "")
       IN sOp' = [sOp EXCEPT !.step = IF r.exitCode = 0 THEN "spawn" ELSE "install",
                             !.pre = sOp.pre /\ t = "ok"]
    /\ UNCHANGED <<tmuxInstalled, sessions, sRes, started>>
    /\ UNCHANGED notSess

\* ensureTmux: the mise install script.  result is what the script does on the
\* target: "fail" it exits non-zero, "installed" tmux is there afterwards,
\* "noeffect" it exits 0 and tmux is still not on the PATH.
EnsureTmuxInstall(t, result) ==
    /\ sOp.kind = "start" /\ sOp.step = "install"
    /\ LET r == ExecResult(t, IF result = "fail" THEN 1 ELSE 0, "")
       IN /\ tmuxInstalled' = (tmuxInstalled \/ (t = "ok" /\ result = "installed"))
          /\ IF r.err # "nil"
             THEN Finish("installing tmux", "", {}, {}, FALSE)
             ELSE IF r.exitCode # 0
             THEN Finish("failed to install tmux", "", {}, {}, FALSE)
             ELSE /\ sOp' = [sOp EXCEPT !.step = "verify", !.pre = FALSE]
                  /\ UNCHANGED <<sRes, started>>
    /\ UNCHANGED sessions
    /\ UNCHANGED notSess

\* A second check that lets StartSession go on whatever it finds.
EnsureTmuxVerifyIgnored(t) ==
    /\ sOp.kind = "start" /\ sOp.step = "verify"
    /\ sOp' = [sOp EXCEPT !.step = "spawn"]
    /\ UNCHANGED <<tmuxInstalled, sessions, sRes, started>>
    /\ UNCHANGED notSess

\* ensureTmux: "command -v tmux" again.
EnsureTmuxVerify(t) ==
    /\ sOp.kind = "start" /\ sOp.step = "verify"
    /\ LET r == ExecResult(t, IF tmuxInstalled THEN 0 ELSE 1, "")
       IN IF r.exitCode # 0
          THEN Finish("tmux still not available", "", {}, {}, FALSE)
          ELSE /\ sOp' = [sOp EXCEPT !.step = "spawn"]
               /\ UNCHANGED <<sRes, started>>
    /\ UNCHANGED <<tmuxInstalled, sessions>>
    /\ UNCHANGED notSess

\* The spawn round trip, first remote command: tmux new-session -d -s name command.
\* tmux refuses a duplicate name; the rest of the && list is then skipped.
SpawnNewSession(t) ==
    /\ sOp.kind = "start" /\ sOp.step = "spawn"
    /\ LET name == tmuxSessionName(sOp.id)
           r == ExecResult(t, IF Exists(name) THEN 1 ELSE 0, "")
       IN IF r.err # "nil"
          THEN Finish("start session", "", {}, {}, FALSE) /\ UNCHANGED sessions
          ELSE IF r.exitCode # 0
          THEN Finish("start session failed", "", {}, {}, FALSE) /\ UNCHANGED sessions
          ELSE /\ sessions' = WithSession(name,
                     [pane |-> "running", remain |-> FALSE, buf |-> "", cmd |-> sOp.cmd])
               /\ sOp' = [sOp EXCEPT !.step = "setopt"]
               /\ UNCHANGED <<sRes, started>>
    /\ UNCHANGED tmuxInstalled
    /\ UNCHANGED notSess

\* The spawn round trip, second remote command: tmux set-option -t name
\* remain-on-exit on.  It fails when the session is gone; its exit status is the
\* round trip's.
SpawnSetOption ==
    /\ sOp.kind = "start" /\ sOp.step = "setopt"
    /\ LET name == tmuxSessionName(sOp.id)
       IN IF HasTarget(name)
          THEN /\ sessions' = [sessions EXCEPT ![TargetOf(name)].remain = TRUE]
               /\ Finish("nil", "", {}, {}, sOp.pre)
          ELSE /\ Finish("start session failed", "", {}, {}, sOp.pre)
               /\ UNCHANGED sessions
    /\ UNCHANGED tmuxInstalled
    /\ UNCHANGED notSess

\* The command of a session prints its output on the pane.
PaneOutput(name) ==
    /\ Exists(name)
    /\ sessions[name].pane = "running"
    /\ sessions[name].buf # OutputOf(sessions[name].cmd)
    /\ sessions' = [sessions EXCEPT ![name].buf = OutputOf(sessions[name].cmd)]
    /\ UNCHANGED <<tmuxInstalled, sOp, sRes, started>>
    /\ UNCHANGED notSess

\* The command of a session exits.  With remain-on-exit the pane stays, dead;
\* without it tmux closes the pane and, with it, the session.
PaneExit(name) ==
    /\ Exists(name)
    /\ sessions[name].pane = "running"
    /\ Exits(sessions[name].cmd)
    /\ sessions[name].buf = OutputOf(sessions[name].cmd)
    /\ sessions' = IF sessions[name].remain
                   THEN [sessions EXCEPT ![name].pane = "dead"]
                   ELSE WithoutSession(name)
    /\ UNCHANGED <<tmuxInstalled, sOp, sRes, started>>
    /\ UNCHANGED notSess

\* Another user of the target creates or kills a tmux session of their own.
ForeignNewSession(name) ==
    /\ ~Exists(name)
    /\ sessions' = WithSession(name,
          [pane |-> "running", remain |-> FALSE, buf |-> "", cmd |-> ""])
    /\ UNCHANGED <<tmuxInstalled, sOp, sRes, started>>
    /\ UNCHANGED notSess

ForeignKillSession(name) ==
    /\ Exists(name)
    /\ sessions' = WithoutSession(name)
    /\ UNCHANGED <<tmuxInstalled, sOp, sRes, started>>
    /\ UNCHANGED notSess

\* ReadSession(sessionID) is called.
ReadSession(id) ==
    /\ sOp.kind = "none"
    /\ sOp' = [kind |-> "read", id |-> id, cmd |-> "", step |-> "has",
               pre |-> Exists(tmuxSessionName(id)), out |-> ""]
    /\ sRes' = NoRes
    /\ UNCHANGED <<tmuxInstalled, sessions, started>>
    /\ UNCHANGED notSess

\* ReadSession: tmux has-session; only the exit code is looked at.
ReadHasSession(t) ==
    /\ sOp.kind = "read" /\ sOp.step = "has"
    /\ LET r == ExecResult(t, IF HasTarget(tmuxSessionName(sOp.id)) THEN 0 ELSE 1, "")
       IN IF r.exitCode # 0
          THEN Finish("does not exist", "", {}, {}, sOp.pre)
          ELSE /\ sOp' = [sOp EXCEPT !.step = "capture"]
               /\ UNCHANGED <<sRes, started>>
    /\ UNCHANGED <<tmuxInstalled, sessions>>
    /\ UNCHANGED notSess

\* ReadSession: tmux capture-pane -p -S -100.
ReadCapturePane(t) ==
    /\ sOp.kind = "read" /\ sOp.step = "capture"
    /\ LET name == tmuxSessionName(sOp.id)
           r == ExecResult(t, IF HasTarget(name) THEN 0 ELSE 1,
                           IF HasTarget(name) THEN sessions[TargetOf(name)].buf ELSE "")
       IN IF r.err # "nil"
          THEN Finish("read session", "", {}, {}, sOp.pre)
          ELSE IF r.exitCode # 0
          THEN Finish("read session failed", "", {}, {}, sOp.pre)
          ELSE /\ sOp' = [sOp EXCEPT !.step = "status", !.out = r.stdout]
               /\ UNCHANGED <<sRes, started>>
    /\ UNCHANGED <<tmuxInstalled, sessions>>
    /\ UNCHANGED notSess

\* ReadSession: tmux list-panes -F '#{pane_dead} #{pane_dead_status}'; errors are
\* ignored and the marker is appended when the output starts with "1".
ReadListPanes(t) ==
    /\ sOp.kind = "read" /\ sOp.step = "status"
    /\ LET name == tmuxSessionName(sOp.id)
           r == ExecResult(t, IF HasTarget(name) THEN 0 ELSE 1,
                           IF ~HasTarget(name) THEN ""
                           ELSE IF sessions[TargetOf(name)].pane = "dead" THEN "1 0\n"
                           ELSE "0 \n")
       IN Finish("nil",
                 IF HasPrefix(TrimSpace(r.stdout), "1") THEN sOp.out \o exitedMarker ELSE sOp.out,
                 {}, {}, sOp.pre)
    /\ UNCHANGED <<tmuxInstalled, sessions>>
    /\ UNCHANGED notSess

\* StopSession(sessionID): tmux kill-session -t name, one round trip.
StopSession(id, t) ==
    /\ sOp.kind = "none"
    /\ LET name == tmuxSessionName(id)
           r == ExecResult(t, IF HasTarget(name) THEN 0 ELSE 1, "")
       IN /\ sessions' = IF t = "ok" /\ HasTarget(name) THEN WithoutSession(TargetOf(name))
                         ELSE sessions
          /\ sRes' = [NoRes EXCEPT !.kind = "stop", !.id = id, !.pre = Exists(name),
                        !.err = IF r.err # "nil" THEN "stop session"
                                ELSE IF r.exitCode # 0 THEN "stop session failed"
                                ELSE "nil"]
    /\ started' = started \ {id}
    /\ UNCHANGED <<tmuxInstalled, sOp>>
    /\ UNCHANGED notSess

\* toolSuccess(text), toolError(text): the result envelope of a handler.
toolSuccess(text) == [IsError |-> FALSE, Text |-> text]

toolError(text) == [IsError |-> TRUE, Text |-> text]

\* listBashHandler, on what ListSessions returned.
listBashHandler(result, err) ==
    IF err # "nil" THEN toolError(err)
    ELSE IF result = "" THEN toolSuccess("No active sessions.")
    ELSE toolSuccess(result)

\* One output line of tmux list-sessions -F '#{session_name} #{session_created}
\* #{session_activity}'.
ListLine(name) == name \o " 1 1"

\* The text made of a set of lines, each ended by a newline.
RECURSIVE JoinLines(_)
JoinLines(S) ==
    IF S = {} THEN ""
    ELSE LET l == CHOOSE x \in S : TRUE IN l \o "\n" \o JoinLines(S \ {l})

\* grep '^copilot-' on one line.
GrepContains(line) == Contains(line, tmuxPrefix)

GrepPrefix(line) == HasPrefix(line, tmuxPrefix)

\* ListSessions(): tmux list-sessions | grep '^copilot-', one round trip.  The
\* pipeline exits with grep's status, 1 when no line matches.  sRes.lines keeps
\* the lines of the stdout that sRes.out holds.
ListSessions(t) ==
    /\ sOp.kind = "none"
    /\ LET matched == {ListLine(n) : n \in {m \in DOMAIN sessions : GrepPrefix(ListLine(m))}}
           r == ExecResult(t, IF matched = {} THEN 1 ELSE 0, "")
           lines == IF t = "ok" THEN matched ELSE {}
       IN sRes' = [NoRes EXCEPT !.kind = "list", !.seen = DOMAIN sessions,
                     !.pre = (t = "ok"),
                     !.err = IF r.err # "nil" THEN "list sessions"
                             ELSE IF r.exitCode > 1 THEN "list sessions failed"
                             ELSE "nil",
                     !.lines = IF r.err = "nil" /\ r.exitCode <= 1 THEN lines ELSE {},
                     !.out = IF r.err = "nil" /\ r.exitCode <= 1 THEN JoinLines(lines)
                             ELSE ""]
    /\ UNCHANGED <<tmuxInstalled, sessions, sOp, started>>
    /\ UNCHANGED notSess

SessNext ==
    \/ \E id \in SessionIDs, cmd \in Commands : StartSession(id, cmd)
    \/ \E t \in Transport : EnsureTmuxCheck(t)
    \/ \E t \in Transport, result \in {"fail", "installed", "noeffect"} :
          EnsureTmuxInstall(t, result)
    \/ \E t \in Transport : EnsureTmuxVerify(t)
    \/ \E t \in Transport : SpawnNewSession(t)
    \/ SpawnSetOption
    \/ \E n \in DOMAIN sessions : PaneOutput(n)
    \/ \E n \in DOMAIN sessions : PaneExit(n)
    \/ \E n \in ForeignNames : ForeignNewSession(n)
    \/ \E n \in ForeignNames : ForeignKillSession(n)
    \/ \E id \in SessionIDs : ReadSession(id)
    \/ \E t \in Transport : ReadHasSession(t)
    \/ \E t \in Transport : ReadCapturePane(t)
    \/ \E t \in Transport : ReadListPanes(t)
    \/ \E id \in SessionIDs, t \in Transport : StopSession(id, t)
    \/ \E t \in Transport : ListSessions(t)

\* ------------------------------------------------------------------------
\* EditFile
\* ------------------------------------------------------------------------
MaxLen == 3
MaxArg == 2

Alphabet == {"a", "b"}

\* The strings over Alphabet of length n, and of length at most n.
RECURSIVE StrsOfLen(_)
StrsOfLen(n) ==
    IF n = 0 THEN {""} ELSE {s \o ch : s \in StrsOfLen(n - 1), ch \in Alphabet}

StrsUpTo(n) == UNION {StrsOfLen(k) : k \in 0..n}

Paths == {"/w/f.txt"}

\* The mark of a path that does not exist (no content over Alphabet equals it).
Missing == "ENOENT"

\* before is the content when EditFile was called; trips lists how each round
\* trip of the call ended, the read first.
NoEdit == [kind |-> "none", path |-> "", old |-> "", new |-> "", step |-> "",
           b64 |-> "", before |-> Missing]
NoEditRes == [kind |-> "none", path |-> "", old |-> "", new |-> "", err |-> "nil",
              before |-> Missing, trips |-> <<>>]

EditIdle ==
    /\ files = [p \in Paths |-> Missing]
    /\ eOp = NoEdit
    /\ eRes = NoEditRes

EditInit ==
    /\ files \in [Paths -> StrsUpTo(MaxLen) \cup {Missing}]
    /\ eOp = NoEdit
    /\ eRes = NoEditRes

\* EditFile returns.
EditFinish(err, trips) ==
    /\ eRes' = [kind |-> "edit", path |-> eOp.path, old |-> eOp.old, new |-> eOp.new,
                err |-> err, before |-> eOp.before, trips |-> trips]
    /\ eOp' = NoEdit

\* EditFile(path, oldStr, newStr) is called.
EditFile(path, oldStr, newStr) ==
    /\ eOp.kind = "none"
    /\ files[path] = Missing \/ Len(files[path]) <= MaxLen
    /\ eOp' = [kind |-> "edit", path |-> path, old |-> oldStr, new |-> newStr,
               step |-> "read", b64 |-> "", before |-> files[path]]
    /\ eRes' = NoEditRes
    /\ UNCHANGED files
    /\ UNCHANGED notEdit

\* EditFile: the read round trip "base64 < path", the decoding, the count and
\* the replacement.
EditRead(t) ==
    /\ eOp.kind = "edit" /\ eOp.step = "read"
    /\ LET there == files[eOp.path] # Missing
           r == ExecResult(t, IF there THEN 0 ELSE 1,
                           IF there THEN EncodeToString(files[eOp.path]) \o "\n" ELSE "")
           contentStr == DecodeString(TrimSpace(r.stdout))
           count == Count(contentStr, eOp.old)
       IN IF r.err # "nil" THEN EditFinish("edit file (read)", <<t>>)
          ELSE IF r.exitCode # 0 THEN EditFinish("edit file (read) failed", <<t>>)
          ELSE IF count = 0 THEN EditFinish("old_str not found in file", <<t>>)
          ELSE IF count > 1 THEN EditFinish("old_str found several times", <<t>>)
          ELSE /\ eOp' = [eOp EXCEPT !.step = "write",
                            !.b64 = EncodeToString(Replace(contentStr, eOp.old, eOp.new))]
               /\ UNCHANGED eRes
    /\ UNCHANGED files
    /\ UNCHANGED notEdit

\* EditFile: the write round trip "echo b64 | base64 -d > path".
EditWrite(t) ==
    /\ eOp.kind = "edit" /\ eOp.step = "write"
    /\ LET r == ExecResult(t, 0, "")
       IN /\ files' = IF t = "ok"
                      THEN [files EXCEPT ![eOp.path] = DecodeString(eOp.b64 \o "\n")]
                      ELSE files
          /\ IF r.err # "nil" THEN EditFinish("edit file (write)", <<"ok", t>>)
             ELSE IF r.exitCode # 0 THEN EditFinish("edit file (write) failed", <<"ok", t>>)
             ELSE EditFinish("nil", <<"ok", t>>)
    /\ UNCHANGED notEdit

EditNext ==
    \/ \E path \in Paths, oldStr \in StrsUpTo(MaxArg), newStr \in StrsUpTo(MaxArg) :
          EditFile(path, oldStr, newStr)
    \/ \E t \in Transport : EditRead(t)
    \/ \E t \in Transport : EditWrite(t)

\* ------------------------------------------------------------------------
\* Tool handlers
\* ------------------------------------------------------------------------
MaxMillis == 2

\* time.Now().UnixMilli() when a handler reads the clock.
Millis == 1..MaxMillis

\* fmt's %d.
Digits == "0123456789"

RECURSIVE Itoa(_)
Itoa(n) ==
    IF n < 0 THEN "-" \o Itoa(-n)
    ELSE IF n < 10 THEN SubSeq(Digits, n + 1, n + 1)
    ELSE Itoa(n \div 10) \o SubSeq(Digits, (n % 10) + 1, (n % 10) + 1)

\* The value of one argument of a request, as encoding/json decodes it into
\* map[string]any: a string, a float64 (n holds it in tenths), nil, or a []any
\* (a holds its elements). JAbsent stands for a key the map does not hold.
JVal(t, str, n, a) == [t |-> t, s |-> str, n |-> n, a |-> a]
JAbsent == JVal("absent", "", 0, <<>>)
JStr(str) == JVal("string", str, 0, <<>>)
JNum(tenths) == JVal("number", "", tenths, <<>>)
JNull == JVal("null", "", 0, <<>>)
JArr(a) == JVal("array", "", 0, a)

\* What requests carry under a key that should hold a string, under "mode",
\* under "delay" and under "view_range".
StringArgs == {JAbsent, JStr("x"), JStr(""), JNum(20), JNull}
ModeArgs == {JAbsent, JStr("sync"), JStr("async"), JStr("fast"), JNum(20)}
DelayArgs == {JAbsent, JNum(5), JNum(-10), JStr("1"), JNull}
RangeArgs == {JAbsent, JArr(<<JNum(10), JNum(30)>>), JArr(<<JNum(15), JNum(-10)>>),
              JArr(<<JNum(10)>>), JArr(<<JStr("1"), JNum(30)>>), JStr("1-3")}

\* int(n) of a float64 held in tenths: the fraction is dropped.
Trunc(tenths) == IF tenths >= 0 THEN tenths \div 10 ELSE -((-tenths) \div 10)

\* requiredString without its checks.
requiredStringLenient(args, key) ==
    [s |-> IF args[key].t = "string" THEN args[key].s ELSE "", err |-> "nil"]

requiredString(args, key) ==
    IF args[key].t = "absent"
    THEN [s |-> "", err |-> "missing required parameter: " \o key]
    ELSE IF args[key].t # "string"
    THEN [s |-> "", err |-> "parameter " \o key \o " must be a string"]
    ELSE [s |-> args[key].s, err |-> "nil"]

optionalString(args, key) == IF args[key].t = "string" THEN args[key].s ELSE ""

\* optionalFloat that forgets the default when the value is not a number.
optionalFloatZero(args, key, defaultVal) ==
    IF args[key].t = "absent" THEN defaultVal
    ELSE IF args[key].t # "number" THEN 0
    ELSE args[key].n

optionalFloat(args, key, defaultVal) ==
    IF args[key].t = "absent" THEN defaultVal
    ELSE IF args[key].t # "number" THEN defaultVal
    ELSE args[key].n

toInt(v) == IF v.t = "number" THEN [n |-> Trunc(v.n), ok |-> TRUE]
            ELSE [n |-> 0, ok |-> FALSE]

\* What a method of the executor returned: its text (stdout for RunBash), and
\* for RunBash stderr and the exit code, and its error ("nil" for none).
Outcome(out, errOut, exitCode, err) ==
    [out |-> out, stderr |-> errOut, exitCode |-> exitCode, err |-> err]
Ok(out) == Outcome(out, "", 0, "nil")
Err(msg) == Outcome("", "", 0, msg)

ViewOutcomes == {Ok("1. x"), Ok(""), Err("view file failed (exit 1): No such file or directory"),
                 Err("view file: command cancelled")}
EditOutcomes == {Ok(""), Err("old_str not found in file"),
                 Err("old_str found 2 times, must be unique"),
                 Err("edit file (read) failed (exit 1): No such file or directory"),
                 Err("edit file (write): failed to execute command")}
CreateOutcomes == {Ok(""), Err("create file failed (exit 1): Permission denied"),
                   Err("create file: command cancelled")}
GrepOutcomes == {Ok("f:1:x"), Ok(""), Err("grep failed with exit code 2"),
                 Err("grep: command cancelled")}
GlobOutcomes == {Ok("./f"), Ok(""), Err("glob failed with exit code 2"),
                 Err("glob: command cancelled")}
StartOutcomes == {Ok(""), Err("start session failed (exit 1): duplicate session"),
                  Err("tmux still not available after mise install")}
WriteOutcomes == {Ok(""), Err("write session failed (exit 1): can't find session")}
ReadOutcomes == {Ok("hello"), Err("session does not exist"),
                 Err("read session: command cancelled")}
StopOutcomes == {Ok(""), Err("stop session failed (exit 1): can't find session"),
                 Err("stop session: command cancelled")}
ListOutcomes == {Ok("copilot-a 1 1"), Ok(""), Err("list sessions failed with exit code 2"),
                 Err("list sessions: command cancelled")}
TabOutcomes == {Ok(""), Err("exit status 1")}

\* What the remote command of remote_bash prints.
Outs == {"", "x"}

\* A RunBash that takes a non-zero exit code for a failure.
RunBashFailsOnExit(t, code, out, errOut) ==
    LET r == ExecResult(t, code, out)
    IN IF r.exitCode # 0
       THEN Outcome("", "", r.exitCode, "exit status " \o Itoa(r.exitCode))
       ELSE Outcome(r.stdout, IF t = "ok" THEN errOut ELSE "", r.exitCode, r.err)

\* RunBash: what Exec returns for "cd workdir && command" when the remote shell
\* would end with code, having printed out and errOut.
RunBash(t, code, out, errOut) ==
    LET r == ExecResult(t, code, out)
    IN Outcome(r.stdout,
               CASE t = "ok" -> errOut [] t = "exit255" -> "ssh: connection lost" [] OTHER -> "",
               r.exitCode, r.err)

\* One call of a handler to the executor: the method, its string arguments,
\* ViewFile's viewRange (<<>> for nil) and what the method returned.
ExecutorCall(m, strs, range, r) == [m |-> m, s |-> strs, range |-> range, ret |-> r]

\* A handler that answers a failure with a Go error and no envelope.
ReturnFault(env, calls, slept) ==
    IF env.IsError
    THEN [env |-> <<>>, err |-> env.Text, calls |-> calls, slept |-> slept]
    ELSE [env |-> <<env>>, err |-> "nil", calls |-> calls, slept |-> slept]

\* time.Sleep(d), d in tenths of a second, as an entry among the executor calls
\* of a handler: it marks the place of the wait between them.
Sleep(d) == [m |-> "time.Sleep", s |-> <<>>, range |-> <<d>>, ret |-> Ok("")]

\* "return envelope, nil": what a handler returns, with the executor calls it
\* made and its waits, in order, and the time it slept (tenths of a second).
Return(env, calls, slept) ==
    [env |-> <<env>>, err |-> "nil", calls |-> calls, slept |-> slept]

\* Each handler below is given the arguments of the request and what the
\* executor methods it may call would return.
viewHandler(args, view) ==
    LET path == requiredString(args, "path")
        raw == args["view_range"]
        viewRange == IF /\ raw.t = "array"
                        /\ Len(raw.a) = 2
                        /\ toInt(raw.a[1]).ok
                        /\ toInt(raw.a[2]).ok
                     THEN <<toInt(raw.a[1]).n, toInt(raw.a[2]).n>>
                     ELSE <<>>
        c == ExecutorCall("ViewFile", <<path.s>>, viewRange, view)
    IN IF path.err # "nil" THEN Return(toolError(path.err), <<>>, 0)
       ELSE IF view.err # "nil" THEN Return(toolError(view.err), <<c>>, 0)
       ELSE Return(toolSuccess(view.out), <<c>>, 0)

editHandler(args, edit) ==
    LET path == requiredString(args, "path")
        oldStr == requiredString(args, "old_str")
        newStr == requiredString(args, "new_str")
        c == ExecutorCall("EditFile", <<path.s, oldStr.s, newStr.s>>, <<>>, edit)
    IN IF path.err # "nil" THEN Return(toolError(path.err), <<>>, 0)
       ELSE IF oldStr.err # "nil" THEN Return(toolError(oldStr.err), <<>>, 0)
       ELSE IF newStr.err # "nil" THEN Return(toolError(newStr.err), <<>>, 0)
       ELSE IF edit.err # "nil" THEN Return(toolError(edit.err), <<c>>, 0)
       ELSE Return(toolSuccess("Successfully edited " \o path.s), <<c>>, 0)

createHandler(args, create) ==
    LET path == requiredString(args, "path")
        content == requiredString(args, "file_text")
        c == ExecutorCall("CreateFile", <<path.s, content.s>>, <<>>, create)
    IN IF path.err # "nil" THEN Return(toolError(path.err), <<>>, 0)
       ELSE IF content.err # "nil" THEN Return(toolError(content.err), <<>>, 0)
       ELSE IF create.err # "nil" THEN Return(toolError(create.err), <<c>>, 0)
       ELSE Return(toolSuccess("Created " \o path.s), <<c>>, 0)

\* bashHandler's text for a synchronous command.
SyncText(stdout, stderr, exitCode) ==
    LET a == IF stdout # "" THEN stdout ELSE ""
        b == IF stderr # ""
             THEN (IF Len(a) > 0 THEN a \o "\n" ELSE a) \o "STDERR:\n" \o stderr
             ELSE a
    IN IF exitCode # 0 THEN b \o "\n[exit code: " \o Itoa(exitCode) \o "]" ELSE b

\* A handler that reads the session without the wait.
bashHandlerReadsAtOnce(args, now, start, read, run) ==
    LET command == requiredString(args, "command")
        mode == optionalString(args, "mode")
        given == optionalString(args, "shellId")
        shellId == IF given = "" THEN "sh-" \o Itoa(now) ELSE given
        cs == ExecutorCall("StartSession", <<shellId, command.s>>, <<>>, start)
        cr == ExecutorCall("ReadSession", <<shellId>>, <<>>, read)
        cb == ExecutorCall("RunBash", <<command.s>>, <<>>, run)
    IN IF command.err # "nil" THEN Return(toolError(command.err), <<>>, 0)
       ELSE IF mode = "async"
       THEN IF start.err # "nil" THEN Return(toolError(start.err), <<cs>>, 0)
            ELSE Return(toolSuccess("Started async session: " \o shellId \o "\n\n" \o read.out),
                        <<cs, cr>>, 0)
       ELSE IF run.err # "nil" THEN Return(toolError(run.err), <<cb>>, 0)
       ELSE Return(toolSuccess(SyncText(run.out, run.stderr, run.exitCode)), <<cb>>, 0)

bashHandler(args, now, start, read, run) ==
    LET command == requiredString(args, "command")
        mode == optionalString(args, "mode")
        given == optionalString(args, "shellId")
        shellId == IF given = "" THEN "sh-" \o Itoa(now) ELSE given
        cs == ExecutorCall("StartSession", <<shellId, command.s>>, <<>>, start)
        cr == ExecutorCall("ReadSession", <<shellId>>, <<>>, read)
        cb == ExecutorCall("RunBash", <<command.s>>, <<>>, run)
    IN IF command.err # "nil" THEN Return(toolError(command.err), <<>>, 0)
       ELSE IF mode = "async"
       THEN IF start.err # "nil" THEN Return(toolError(start.err), <<cs>>, 0)
            ELSE Return(toolSuccess("Started async session: " \o shellId \o "\n\n" \o read.out),
                        <<cs, Sleep(10), cr>>, 10)
       ELSE IF run.err # "nil" THEN Return(toolError(run.err), <<cb>>, 0)
       ELSE Return(toolSuccess(SyncText(run.out, run.stderr, run.exitCode)), <<cb>>, 0)

writeBashHandler(args, write, read) ==
    LET shellId == requiredString(args, "shellId")
        input == optionalString(args, "input")
        delay == optionalFloat(args, "delay", 20)
        cw == ExecutorCall("WriteSession", <<shellId.s, input>>, <<>>, write)
        cr == ExecutorCall("ReadSession", <<shellId.s>>, <<>>, read)
        wrote == IF input # "" THEN <<cw>> ELSE <<>>
    IN IF shellId.err # "nil" THEN Return(toolError(shellId.err), <<>>, 0)
       ELSE IF input # "" /\ write.err # "nil" THEN Return(toolError(write.err), <<cw>>, 0)
       ELSE IF read.err # "nil"
       THEN Return(toolError(read.err), wrote \o <<Sleep(delay), cr>>, delay)
       ELSE Return(toolSuccess(read.out), wrote \o <<Sleep(delay), cr>>, delay)

readBashHandler(args, read) ==
    LET shellId == requiredString(args, "shellId")
        delay == optionalFloat(args, "delay", 20)
        cr == ExecutorCall("ReadSession", <<shellId.s>>, <<>>, read)
    IN IF shellId.err # "nil" THEN Return(toolError(shellId.err), <<>>, 0)
       ELSE IF read.err # "nil" THEN Return(toolError(read.err), <<Sleep(delay), cr>>, delay)
       ELSE Return(toolSuccess(read.out), <<Sleep(delay), cr>>, delay)

stopBashHandler(args, stop) ==
    LET shellId == requiredString(args, "shellId")
        c == ExecutorCall("StopSession", <<shellId.s>>, <<>>, stop)
    IN IF shellId.err # "nil" THEN Return(toolError(shellId.err), <<>>, 0)
       ELSE IF stop.err # "nil" THEN Return(toolError(stop.err), <<c>>, 0)
       ELSE Return(toolSuccess("Session " \o shellId.s \o " stopped."), <<c>>, 0)

grepHandler(args, grep) ==
    LET pattern == requiredString(args, "pattern")
        path == optionalString(args, "path")
        glob == optionalString(args, "glob")
        c == ExecutorCall("Grep", <<pattern.s, path, glob>>, <<>>, grep)
    IN IF pattern.err # "nil" THEN Return(toolError(pattern.err), <<>>, 0)
       ELSE IF grep.err # "nil" THEN Return(toolError(grep.err), <<c>>, 0)
       ELSE IF grep.out = "" THEN Return(toolSuccess("No matches found."), <<c>>, 0)
       ELSE Return(toolSuccess(grep.out), <<c>>, 0)

globHandler(args, glob) ==
    LET pattern == requiredString(args, "pattern")
        path == optionalString(args, "path")
        c == ExecutorCall("Glob", <<pattern.s, path>>, <<>>, glob)
    IN IF pattern.err # "nil" THEN Return(toolError(pattern.err), <<>>, 0)
       ELSE IF glob.err # "nil" THEN Return(toolError(glob.err), <<c>>, 0)
       ELSE IF glob.out = "" THEN Return(toolSuccess("No matches found."), <<c>>, 0)
       ELSE Return(toolSuccess(glob.out), <<c>>, 0)

openShellHandler(tab) ==
    IF tab.err # "nil" THEN Return(toolError("Failed to open shell: " \o tab.err), <<>>, 0)
    ELSE Return(toolSuccess("Opened SSH shell to codespace in a new terminal tab."), <<>>, 0)

\* No call handled: the server waits for a request.
NoRemote == [t |-> "none", code |-> 0, out |-> "", errOut |-> ""]
NoCall == [tool |-> "none", args |-> <<>>, remote |-> NoRemote, h |-> Return(toolSuccess(""), <<>>, 0)]

\* A server that registers the remote tools only.
NewServerRemoteOnly ==
    {"remote_view", "remote_edit", "remote_create", "remote_bash", "remote_grep",
     "remote_glob", "remote_write_bash", "remote_read_bash", "remote_stop_bash",
     "remote_list_bash"}

\* NewServer: the names of the tools it registers with AddTool.
NewServer ==
    {"remote_view", "remote_edit", "remote_create", "remote_bash", "remote_grep",
     "remote_glob", "remote_write_bash", "remote_read_bash", "remote_stop_bash",
     "remote_list_bash", "open_shell"}

ToolIdle == call = NoCall /\ tools = NewServer

\* The call the server has handled, for tool with handler result h.
Handled(tool, args, remote, h) == [tool |-> tool, args |-> args, remote |-> remote, h |-> h]

remote_view ==
    /\ call.tool = "none"
    /\ "remote_view" \in tools
    /\ \E path \in StringArgs, range \in RangeArgs, view \in ViewOutcomes :
        LET args == [path |-> path, view_range |-> range]
        IN call' = Handled("remote_view", args, NoRemote, viewHandler(args, view))
    /\ UNCHANGED tools
    /\ UNCHANGED notTool

remote_edit ==
    /\ call.tool = "none"
    /\ "remote_edit" \in tools
    /\ \E path \in StringArgs, oldStr \in StringArgs, newStr \in StringArgs,
          edit \in EditOutcomes :
        LET args == [path |-> path, old_str |-> oldStr, new_str |-> newStr]
        IN call' = Handled("remote_edit", args, NoRemote, editHandler(args, edit))
    /\ UNCHANGED tools
    /\ UNCHANGED notTool

remote_create ==
    /\ call.tool = "none"
    /\ "remote_create" \in tools
    /\ \E path \in StringArgs, text \in StringArgs, create \in CreateOutcomes :
        LET args == [path |-> path, file_text |-> text]
        IN call' = Handled("remote_create", args, NoRemote, createHandler(args, create))
    /\ UNCHANGED tools
    /\ UNCHANGED notTool

\* The clock and the session outcomes matter to an async call only, the remote
\* command's behaviour to a sync call only.
remote_bash ==
    /\ call.tool = "none"
    /\ "remote_bash" \in tools
    /\ \E command \in StringArgs, mode \in ModeArgs, shellId \in StringArgs :
        LET args == [command |-> command, mode |-> mode, shellId |-> shellId]
            async == optionalString(args, "mode") = "async"
        IN \E now \in (IF async THEN Millis ELSE {1}),
              start \in (IF async THEN StartOutcomes ELSE {Ok("")}),
              read \in (IF async THEN ReadOutcomes ELSE {Ok("")}),
              t \in (IF async THEN {"ok"} ELSE Transport),
              code \in (IF async THEN {0} ELSE 0..MaxExit),
              out \in (IF async THEN {""} ELSE Outs),
              errOut \in (IF async THEN {""} ELSE Outs) :
            LET h == bashHandler(args, now, start, read, RunBash(t, code, out, errOut))
                ran == h.calls # <<>> /\ h.calls[1].m = "RunBash"
                remote == IF ran
                          THEN [t |-> t, code |-> code, out |-> out, errOut |-> errOut]
                          ELSE NoRemote
            IN call' = Handled("remote_bash", args, remote, h)
    /\ UNCHANGED tools
    /\ UNCHANGED notTool

remote_write_bash ==
    /\ call.tool = "none"
    /\ "remote_write_bash" \in tools
    /\ \E shellId \in StringArgs, input \in StringArgs, delay \in DelayArgs,
          write \in WriteOutcomes, read \in ReadOutcomes :
        LET args == [shellId |-> shellId, input |-> input, delay |-> delay]
        IN call' = Handled("remote_write_bash", args, NoRemote,
                           writeBashHandler(args, write, read))
    /\ UNCHANGED tools
    /\ UNCHANGED notTool

remote_read_bash ==
    /\ call.tool = "none"
    /\ "remote_read_bash" \in tools
    /\ \E shellId \in StringArgs, delay \in DelayArgs, read \in ReadOutcomes :
        LET args == [shellId |-> shellId, delay |-> delay]
        IN call' = Handled("remote_read_bash", args, NoRemote, readBashHandler(args, read))
    /\ UNCHANGED tools
    /\ UNCHANGED notTool

remote_stop_bash ==
    /\ call.tool = "none"
    /\ "remote_stop_bash" \in tools
    /\ \E shellId \in StringArgs, stop \in StopOutcomes :
        LET args == [shellId |-> shellId]
        IN call' = Handled("remote_stop_bash", args, NoRemote, stopBashHandler(args, stop))
    /\ UNCHANGED tools
    /\ UNCHANGED notTool

remote_list_bash ==
    /\ call.tool = "none"
    /\ "remote_list_bash" \in tools
    /\ \E list \in ListOutcomes :
        call' = Handled("remote_list_bash", <<>>, NoRemote,
                        Return(listBashHandler(list.out, list.err),
                               <<ExecutorCall("ListSessions", <<>>, <<>>, list)>>, 0))
    /\ UNCHANGED tools
    /\ UNCHANGED notTool

remote_grep ==
    /\ call.tool = "none"
    /\ "remote_grep" \in tools
    /\ \E pattern \in StringArgs, path \in StringArgs, glob \in StringArgs,
          grep \in GrepOutcomes :
        LET args == [pattern |-> pattern, path |-> path, glob |-> glob]
        IN call' = Handled("remote_grep", args, NoRemote, grepHandler(args, grep))
    /\ UNCHANGED tools
    /\ UNCHANGED notTool

remote_glob ==
    /\ call.tool = "none"
    /\ "remote_glob" \in tools
    /\ \E pattern \in StringArgs, path \in StringArgs, glob \in GlobOutcomes :
        LET args == [pattern |-> pattern, path |-> path]
        IN call' = Handled("remote_glob", args, NoRemote, globHandler(args, glob))
    /\ UNCHANGED tools
    /\ UNCHANGED notTool

open_shell ==
    /\ call.tool = "none"
    /\ "open_shell" \in tools
    /\ \E tab \in TabOutcomes :
        call' = Handled("open_shell", <<>>, NoRemote, openShellHandler(tab))
    /\ UNCHANGED tools
    /\ UNCHANGED notTool

\* The server writes the response and waits for the next request.
Respond ==
    /\ call.tool # "none"
    /\ call' = NoCall
    /\ UNCHANGED tools
    /\ UNCHANGED notTool

ToolNext ==
    \/ remote_view
    \/ remote_edit
    \/ remote_create
    \/ remote_bash
    \/ remote_write_bash
    \/ remote_read_bash
    \/ remote_stop_bash
    \/ remote_list_bash
    \/ remote_grep
    \/ remote_glob
    \/ open_shell
    \/ Respond

\* ------------------------------------------------------------------------
\* parseInput
\* ------------------------------------------------------------------------
MaxPieces == 3

\* The byte 0x00 that marks a key segment; "0" stands for it (no other piece of
\* an input holds a digit).
NUL == "0"

\* specialKeys, in the order of its declaration.
specialKeys == <<
    [pattern |-> "{enter}", tmuxKey |-> "Enter"],
    [pattern |-> "{up}", tmuxKey |-> "Up"],
    [pattern |-> "{down}", tmuxKey |-> "Down"],
    [pattern |-> "{left}", tmuxKey |-> "Left"],
    [pattern |-> "{right}", tmuxKey |-> "Right"],
    [pattern |-> "{backspace}", tmuxKey |-> "BSpace"] >>

\* Orders in which a range over the map may visit its entries.
Orders == {<<1, 2, 3, 4, 5, 6>>, <<6, 5, 4, 3, 2, 1>>}

\* The pieces inputs are made of: the six tokens, an unknown brace token, plain
\* text, an opening brace, a name tmux gives a key, and the NUL byte.
Pieces == {"{enter}", "{up}", "{down}", "{left}", "{right}", "{backspace}",
           "{foo}", "ls", "{", "Up", NUL}

RECURSIVE InputsOf(_)
InputsOf(n) ==
    IF n = 0 THEN {""} ELSE InputsOf(n - 1) \cup {s \o q : s \in InputsOf(n - 1), q \in Pieces}

Inputs == InputsOf(MaxPieces)

\* The inner loop of parseInput from the k-th visited entry on: best is the
\* match kept so far (idx 0 for none; positions count from 1).
RECURSIVE EarliestMatch(_, _, _, _)
EarliestMatch(input, order, k, best) ==
    IF k > Len(order) THEN best
    ELSE LET e == specialKeys[order[k]]
             idx == Index(input, e.pattern)
         IN IF idx >= 1 /\ (best.idx < 1 \/ idx < best.idx)
            THEN EarliestMatch(input, order, k + 1,
                               [idx |-> idx, key |-> e.pattern, tmux |-> e.tmuxKey])
            ELSE EarliestMatch(input, order, k + 1, best)

NoMatch == [idx |-> 0, key |-> "", tmux |-> ""]

\* One iteration of the outer loop of parseInput on a non-empty input.
parseIteration(input, segments, order) ==
    LET best == EarliestMatch(input, order, 1, NoMatch)
    IN IF best.idx < 1
       THEN [input |-> "", segments |-> Append(segments, input)]
       ELSE [input |-> SubSeq(input, best.idx + Len(best.key), Len(input)),
             segments |-> (IF best.idx > 1
                           THEN Append(segments, SubSeq(input, 1, best.idx - 1))
                           ELSE segments) \o <<NUL \o best.tmux>>]

RECURSIVE parseLoop(_, _, _)
parseLoop(input, segments, order) ==
    IF Len(input) = 0 THEN segments
    ELSE LET n == parseIteration(input, segments, order)
         IN parseLoop(n.input, n.segments, order)

parseInput(input, order) == parseLoop(input, <<>>, order)

ParseIdle ==
    /\ pIn = "" /\ pOrder = <<1, 2, 3, 4, 5, 6>> /\ pRest = "" /\ pSegs = <<>>
    /\ pPc = "done"

\* parseInput is called.
ParseInit ==
    /\ pIn \in Inputs
    /\ pOrder \in Orders
    /\ pRest = pIn
    /\ pSegs = <<>>
    /\ pPc = "loop"

ParseIteration ==
    /\ pPc = "loop" /\ Len(pRest) > 0
    /\ LET n == parseIteration(pRest, pSegs, pOrder)
       IN pRest' = n.input /\ pSegs' = n.segments
    /\ UNCHANGED <<pIn, pOrder, pPc>>
    /\ UNCHANGED notParse

ParseReturn ==
    /\ pPc = "loop" /\ Len(pRest) = 0
    /\ pPc' = "done"
    /\ UNCHANGED <<pIn, pOrder, pRest, pSegs>>
    /\ UNCHANGED notParse

ParseNext ==
    \/ ParseIteration
    \/ ParseReturn

\* ------------------------------------------------------------------------
\* Grep
\* ------------------------------------------------------------------------

\* The line limit of "head -200".
HeadLimit == 200

\* The files under the default search path, and those a glob selects.
SourceFiles == <<"a.go", "b.txt">>
GlobMatches(glob, file) ==
    CASE glob = "" -> TRUE
      [] glob = "*.go" -> file = "a.go"
      [] OTHER -> FALSE

\* How many lines of a file match the pattern.
MatchCounts == {0, 1, HeadLimit + 1}

\* The searches asked for: everything, the Go files, one file.
GrepRequests == {[path |-> "", glob |-> ""], [path |-> "", glob |-> "*.go"],
                 [path |-> "a.go", glob |-> ""]}

\* The files a search of searchPath visits: all of them under ".", the file
\* itself when searchPath names one.
FilesUnder(searchPath) ==
    SelectSeq(SourceFiles, LAMBDA f : searchPath = "." \/ searchPath = f)

\* The output of a search tool over files: one block per file with matches,
\* holding the file, the number of its lines "<line>:<content>", and whether
\* each line is preceded by "<path>:" (rg and grep -r leave the path out when
\* their one operand is a file).
RECURSIVE SearchOutput(_, _, _)
SearchOutput(fs, matches, named) ==
    IF fs = <<>> THEN <<>>
    ELSE (IF matches[Head(fs)] > 0
          THEN <<[file |-> Head(fs), n |-> matches[Head(fs)], named |-> named]>>
          ELSE <<>>) \o SearchOutput(Tail(fs), matches, named)

RECURSIVE LineCount(_)
LineCount(out) == IF out = <<>> THEN 0 ELSE Head(out).n + LineCount(Tail(out))

\* "rg --color=never -n [--glob g] pattern searchPath": exit 0 with matches, 1 without.
RunRg(target, searchPath, glob) ==
    LET fs == SelectSeq(FilesUnder(searchPath), LAMBDA f : GlobMatches(glob, f))
        out == SearchOutput(fs, target.matches, searchPath = ".")
    IN [out |-> out, code |-> IF out = <<>> THEN 1 ELSE 0]

\* "grep -rn pattern searchPath": no file filter.
RunGrep(target, searchPath) ==
    LET out == SearchOutput(FilesUnder(searchPath), target.matches, searchPath = ".")
    IN [out |-> out, code |-> IF out = <<>> THEN 1 ELSE 0]

NoGrep == [step |-> "none", path |-> "", glob |-> "", searchPath |-> "", ran |-> <<>>,
           out |-> <<>>, code |-> 0]
NoGrepRes == [kind |-> "none", path |-> "", glob |-> "", ran |-> <<>>, out |-> <<>>,
              err |-> "nil", trip |-> "none"]

GrepIdle ==
    /\ gTarget = [rg |-> TRUE, matches |-> [f \in {"a.go", "b.txt"} |-> 0]]
    /\ gOp = NoGrep
    /\ gRes = NoGrepRes

GrepInit ==
    /\ gTarget \in [rg : BOOLEAN, matches : [{"a.go", "b.txt"} -> MatchCounts]]
    /\ gOp = NoGrep
    /\ gRes = NoGrepRes

\* Grep(pattern, path, globPattern) is called and builds its command.
Grep(path, globPattern) ==
    /\ gOp.step = "none"
    /\ gOp' = [NoGrep EXCEPT !.step = "rg", !.path = path, !.glob = globPattern,
                             !.searchPath = IF path = "" THEN "." ELSE path]
    /\ gRes' = NoGrepRes
    /\ UNCHANGED gTarget
    /\ UNCHANGED notGrep

\* The remote shell runs the left side of "||": rg, or "command not found"
\* (exit 127) when rg is not installed; stderr goes to /dev/null.
GrepRunRg ==
    /\ gOp.step = "rg"
    /\ LET r == IF gTarget.rg THEN RunRg(gTarget, gOp.searchPath, gOp.glob)
                ELSE [out |-> <<>>, code |-> 127]
       IN gOp' = [gOp EXCEPT !.step = IF r.code = 0 THEN "return" ELSE "grep",
                             !.ran = <<"rg">>, !.out = r.out, !.code = r.code]
    /\ UNCHANGED <<gTarget, gRes>>
    /\ UNCHANGED notGrep

\* The left side exited non-zero, so the shell runs the right side of "||".
GrepRunFallback ==
    /\ gOp.step = "grep"
    /\ LET r == RunGrep(gTarget, gOp.searchPath)
       IN gOp' = [gOp EXCEPT !.step = "return", !.ran = Append(gOp.ran, "grep"),
                             !.out = gOp.out \o r.out, !.code = r.code]
    /\ UNCHANGED <<gTarget, gRes>>
    /\ UNCHANGED notGrep

\* Exec returns and Grep maps the result.
GrepReturn(t) ==
    /\ gOp.step = "return"
    /\ LET r == ExecResult(t, gOp.code, "")
           stdout == IF t = "ok" THEN gOp.out ELSE <<>>
           err == IF r.err # "nil" THEN "grep"
                  ELSE IF r.exitCode > 1 THEN "grep failed with exit code"
                  ELSE "nil"
       IN gRes' = [kind |-> "grep", path |-> gOp.path, glob |-> gOp.glob, ran |-> gOp.ran,
                   out |-> IF err = "nil" THEN stdout ELSE <<>>, err |-> err, trip |-> t]
    /\ gOp' = NoGrep
    /\ UNCHANGED gTarget
    /\ UNCHANGED notGrep

\* A round trip that fails before the remote shell ran anything.
GrepNoShell(t) ==
    /\ gOp.step = "rg" /\ t # "ok"
    /\ LET r == ExecResult(t, 0, "")
       IN gRes' = [kind |-> "grep", path |-> gOp.path, glob |-> gOp.glob, ran |-> <<>>,
                   out |-> <<>>,
                   err |-> IF r.err # "nil" THEN "grep" ELSE "grep failed with exit code",
                   trip |-> t]
    /\ gOp' = NoGrep
    /\ UNCHANGED gTarget
    /\ UNCHANGED notGrep

GrepNext ==
    \/ \E q \in GrepRequests : Grep(q.path, q.glob)
    \/ GrepRunRg
    \/ GrepRunFallback
    \/ \E t \in Transport : GrepReturn(t)
    \/ \E t \in Transport : GrepNoShell(t)

\* ------------------------------------------------------------------------
\* Shell quoting and how a shell reads a command string
\* ------------------------------------------------------------------------

\* strings.ReplaceAll(s, old, new) for a non-empty old.
RECURSIVE ReplaceAll(_, _, _)
ReplaceAll(s, old, new) ==
    IF Index(s, old) = 0 THEN s
    ELSE SubSeq(s, 1, Index(s, old) - 1) \o new
           \o ReplaceAll(SubSeq(s, Index(s, old) + Len(old), Len(s)), old, new)

shellQuote(s) == "'" \o ReplaceAll(s, "'", "'\"'\"'") \o "'"

\* The state of a shell reading a command string: the commands read so far
\* (each a sequence of words), the words of the command being read, the word
\* being read (has tells an empty quoted word from no word), the quoting mode
\* ("n" none, "s" single, "d" double), and whether the shell met an unquoted
\* character that makes it do more than split words: an expansion, a pipe, a
\* redirection.
ShellStart == [cmds |-> <<>>, words |-> <<>>, cur |-> "", has |-> FALSE, mode |-> "n",
               special |-> FALSE, skip |-> FALSE]

EndWord(st) ==
    IF st.has THEN [st EXCEPT !.words = Append(st.words, st.cur), !.cur = "", !.has = FALSE]
    ELSE st

EndCommand(st) ==
    LET w == EndWord(st)
    IN IF w.words = <<>> THEN w
       ELSE [w EXCEPT !.cmds = Append(w.cmds, w.words), !.words = <<>>]

\* The shell reads character i of s; skip marks the second character of "&&".
ShellStep(s, i, st) ==
    LET ch == SubSeq(s, i, i)
        add == [st EXCEPT !.cur = st.cur \o ch, !.has = TRUE]
    IN CASE st.skip -> [st EXCEPT !.skip = FALSE]
         [] ~st.skip /\ st.mode = "s" ->
                IF ch = "'" THEN [st EXCEPT !.mode = "n"] ELSE add
         [] ~st.skip /\ st.mode = "d" ->
                IF ch = "\"" THEN [st EXCEPT !.mode = "n"]
                ELSE IF ch = "$" THEN [add EXCEPT !.special = TRUE]
                ELSE add
         [] OTHER ->
                IF ch = " " THEN EndWord(st)
                ELSE IF ch = "'" THEN [st EXCEPT !.mode = "s", !.has = TRUE]
                ELSE IF ch = "\"" THEN [st EXCEPT !.mode = "d", !.has = TRUE]
                ELSE IF ch = ";" THEN EndCommand(st)
                ELSE IF ch = "&" /\ SubSeq(s, i + 1, i + 1) = "&"
                THEN [EndCommand(st) EXCEPT !.skip = TRUE]
                ELSE IF ch \in {"$", "|", "&", "<", ">", "(", ")"}
                THEN [add EXCEPT !.special = TRUE]
                ELSE add

\* The shell reads characters lo..hi of s, left to right: the state after the
\* left half is computed before the right half is read from it, which keeps
\* the evaluation depth logarithmic in the length of s.
RECURSIVE ShellRead(_, _, _, _)
ShellRead(s, lo, hi, st) ==
    IF lo > hi THEN st
    ELSE IF lo = hi THEN ShellStep(s, lo, st)
    ELSE LET mid == (lo + hi) \div 2
             left == ShellRead(s, lo, mid, st)
         IN IF left.skip \in BOOLEAN THEN ShellRead(s, mid + 1, hi, left) ELSE left

\* What a shell makes of the command string s.
ShellParse(s) ==
    LET st == EndCommand(ShellRead(s, 1, Len(s), ShellStart))
    IN [cmds |-> st.cmds, special |-> st.special, open |-> st.mode # "n"]

\* ------------------------------------------------------------------------
\* rewriteMCPServerForSSH and rewriteHooksForSSH
\* ------------------------------------------------------------------------
MaxHandlers == 2

CodespaceName == "cs"
Workdirs == {"/w", "/w d"}
RemoteBinaries == {"", "/bin/cc"}

\* An env object, as the sequence of its string bindings in the order the range
\* over the map visits them.
Binding(k, v) == [k |-> k, v |-> v]
Envs == {<<>>, <<Binding("K", "v")>>, <<Binding("K", "x'y z")>>,
         <<Binding("K", "v"), Binding("L", "$(id)")>>}

\* A server descriptor: its command ("" when absent or not a string), the
\* strings of its args, its env, and the names of all the fields it carries.
ServerDescriptors ==
    [command : {"", "py"},
     args : {<<>>, <<"s.py">>, <<"a b">>, <<"s.py", ";ls">>},
     env : Envs,
     fields : {{"type", "command", "args", "env"}, {"command", "args", "env", "cwd"}}]

\* A hook handler: its bash command ("" when absent, empty or not a string),
\* which of cwd and env it carries, and their values.
Handler(bash, fields, cwd, env) == [bash |-> bash, fields |-> fields, cwd |-> cwd, env |-> env]
Handlers ==
    {Handler(b, c.f \cup e.f, c.cwd, e.env) :
        b \in {"", "echo hi"},
        c \in {[f |-> {}, cwd |-> ""], [f |-> {"cwd"}, cwd |-> "."],
               [f |-> {"cwd"}, cwd |-> "s d"]},
        e \in {[f |-> {}, env |-> <<>>], [f |-> {"env"}, env |-> <<Binding("K", "x'y z")>>]}}

RECURSIVE HandlerLists(_)
HandlerLists(n) ==
    IF n = 0 THEN {<<>>}
    ELSE HandlerLists(n - 1) \cup {Append(l, h) : l \in HandlerLists(n - 1), h \in Handlers}

RECURSIVE EnvFlags(_)
EnvFlags(env) ==
    IF env = <<>> THEN <<>>
    ELSE <<"--env", Head(env).k \o "=" \o Head(env).v>> \o EnvFlags(Tail(env))

\* ` remoteCmd += " " + s ` over the args.
RECURSIVE AppendArgs(_, _)
AppendArgs(remoteCmd, args) ==
    IF args = <<>> THEN remoteCmd
    ELSE AppendArgs(remoteCmd \o " " \o Head(args), Tail(args))

\* ` envPrefix += " && export k=s" ` over the env of a server.
RECURSIVE ServerExports(_, _)
ServerExports(envPrefix, env) ==
    IF env = <<>> THEN envPrefix
    ELSE ServerExports(envPrefix \o " && export " \o Head(env).k \o "=" \o Head(env).v,
                       Tail(env))

NoDescriptor == [type |-> "", command |-> "", args |-> <<>>]

\* rewriteMCPServerForSSH: the descriptor returned, nil TRUE for a nil result.
rewriteMCPServerForSSH(server, codespaceName, workdir, remoteBinary) ==
    IF server.command = "" THEN [nil |-> TRUE, desc |-> NoDescriptor]
    ELSE IF remoteBinary # ""
    THEN [nil |-> FALSE,
          desc |-> [type |-> "local", command |-> "gh",
                    args |-> <<"codespace", "ssh", "-c", codespaceName, "--",
                               remoteBinary, "exec", "--workdir", workdir>>
                             \o EnvFlags(server.env)
                             \o <<"--", server.command>> \o server.args]]
    ELSE LET remoteCmd == AppendArgs(server.command, server.args)
             envPrefix == ServerExports("cd " \o workdir, server.env)
         IN [nil |-> FALSE,
             desc |-> [type |-> "local", command |-> "gh",
                       args |-> <<"codespace", "ssh", "-c", codespaceName, "--",
                                  "bash", "-c", envPrefix \o " && exec " \o remoteCmd>>]]

\* ` execArgs += " --env " + k + "=" + s ` over the env of a handler.
RECURSIVE HookEnvFlags(_, _)
HookEnvFlags(execArgs, env) ==
    IF env = <<>> THEN execArgs
    ELSE HookEnvFlags(execArgs \o " --env " \o Head(env).k \o "=" \o Head(env).v, Tail(env))

\* ` envPrefix += "export k=" + shellQuote(s) + " && " ` over the env of a handler.
RECURSIVE HookExports(_, _)
HookExports(envPrefix, env) ==
    IF env = <<>> THEN envPrefix
    ELSE HookExports(envPrefix \o "export " \o Head(env).k \o "=" \o shellQuote(Head(env).v)
                       \o " && ", Tail(env))

\* The directory a handler runs in on the target.
RemoteCwd(h, workdir) ==
    IF "cwd" \in h.fields /\ h.cwd # "" /\ h.cwd # "."
    THEN workdir \o "/" \o h.cwd ELSE workdir

\* A rewrite of a handler that leaves its env in place.
rewriteHandlerKeepsEnv(h, codespaceName, workdir, remoteBinary) ==
    IF h.bash = "" THEN h
    ELSE [h EXCEPT !.bash = "gh codespace ssh -c " \o codespaceName \o " -- " \o h.bash,
                   !.fields = h.fields \ {"cwd"}, !.cwd = ""]

\* The body of the loop of rewriteHooksForSSH for one handler.
rewriteHandler(h, codespaceName, workdir, remoteBinary) ==
    IF h.bash = "" THEN h
    ELSE IF remoteBinary # ""
    THEN LET execArgs == HookEnvFlags(remoteBinary \o " exec --workdir "
                                        \o RemoteCwd(h, workdir),
                                      IF "env" \in h.fields THEN h.env ELSE <<>>)
                           \o " -- bash -c " \o shellQuote(h.bash)
         IN Handler("gh codespace ssh -c " \o codespaceName \o " -- " \o execArgs,
                    {}, "", <<>>)
    ELSE LET envPrefix == HookExports("", IF "env" \in h.fields THEN h.env ELSE <<>>)
             remoteCmd == "cd " \o shellQuote(RemoteCwd(h, workdir)) \o " && "
                            \o envPrefix \o h.bash
         IN Handler("gh codespace ssh -c " \o codespaceName \o " -- bash -c "
                      \o shellQuote(remoteCmd),
                    {}, "", <<>>)

\* rewriteHooksForSSH on the handler list of one event: nil when no handler was
\* modified.
rewriteHooksForSSH(handlers, codespaceName, workdir, remoteBinary) ==
    IF \A i \in 1..Len(handlers) : handlers[i].bash = ""
    THEN [nil |-> TRUE, handlers |-> <<>>]
    ELSE [nil |-> FALSE,
          handlers |-> [i \in 1..Len(handlers) |->
                          rewriteHandler(handlers[i], codespaceName, workdir, remoteBinary)]]

NoRewriteIn == [kind |-> "none", server |-> [command |-> "", args |-> <<>>, env |-> <<>>,
                                             fields |-> {}],
                handlers |-> <<>>, workdir |-> "", remoteBinary |-> ""]
NoRewriteOut == [kind |-> "none", nil |-> FALSE, desc |-> NoDescriptor, handlers |-> <<>>]

RewriteIdle == rIn = NoRewriteIn /\ rOut = NoRewriteOut

\* A descriptor is about to be rewritten.
RewriteInit ==
    /\ rIn \in [kind : {"server"}, server : ServerDescriptors, handlers : {<<>>},
                workdir : Workdirs, remoteBinary : RemoteBinaries]
             \cup [kind : {"hooks"}, server : {NoRewriteIn.server},
                   handlers : HandlerLists(MaxHandlers), workdir : Workdirs,
                   remoteBinary : RemoteBinaries]
    /\ rOut = NoRewriteOut

RewriteServer ==
    /\ rIn.kind = "server" /\ rOut.kind = "none"
    /\ LET r == rewriteMCPServerForSSH(rIn.server, CodespaceName, rIn.workdir,
                                       rIn.remoteBinary)
       IN rOut' = [kind |-> "server", nil |-> r.nil, desc |-> r.desc, handlers |-> <<>>]
    /\ UNCHANGED rIn
    /\ UNCHANGED notRewrite

RewriteHooks ==
    /\ rIn.kind = "hooks" /\ rOut.kind = "none"
    /\ LET r == rewriteHooksForSSH(rIn.handlers, CodespaceName, rIn.workdir,
                                   rIn.remoteBinary)
       IN rOut' = [kind |-> "hooks", nil |-> r.nil, desc |-> NoDescriptor,
                   handlers |-> r.handlers]
    /\ UNCHANGED rIn
    /\ UNCHANGED notRewrite

RewriteNext ==
    \/ RewriteServer
    \/ RewriteHooks

\* ------------------------------------------------------------------------
\* CreateFile
\* ------------------------------------------------------------------------

\* strings.LastIndex(s, sub) for a one-character sub, positions from 1; 0 when
\* sub does not occur.
LastIndex(s, sub) ==
    LET at == {i \in 1..Len(s) : SubSeq(s, i, i) = sub}
    IN IF at = {} THEN 0 ELSE CHOOSE i \in at : \A j \in at : j <= i

\* The directory of the target that holds path: the root for a file directly
\* under it, the login directory for a relative name.
ParentOf(path) ==
    IF LastIndex(path, "/") = 0 THEN "."
    ELSE IF LastIndex(path, "/") = 1 THEN "/"
    ELSE SubSeq(path, 1, LastIndex(path, "/") - 1)

pathDir(path) ==
    IF LastIndex(path, "/") = 0 THEN "." ELSE SubSeq(path, 1, LastIndex(path, "/") - 1)

\* The paths and contents CreateFile is called with: a file directly under the
\* root, one two directories down, one relative to the login directory.
CreatePaths == {"/a", "/w/d/g.txt", "f.txt"}
CreateContents == {"", "ab"}

\* The directories "mkdir -p dir" makes sure of: dir and every directory above
\* it.  The root and the login directory "." are always there.
DirsOf(dir) ==
    {SubSeq(dir, 1, i - 1) : i \in {j \in 2..Len(dir) : SubSeq(dir, j, j) = "/"}} \cup {dir}

\* "mkdir -p dir": fails on the empty name, otherwise leaves dir and the
\* directories above it in place.
MkdirP(fs, dir) ==
    IF dir = "" THEN [fs |-> fs, exit |-> 1]
    ELSE [fs |-> [fs EXCEPT !.dirs = fs.dirs \cup DirsOf(dir)], exit |-> 0]

\* "echo b64 | base64 -d > path" in a shell whose directories are those of fs.
WriteDecoded(fs, b64, path) ==
    IF ParentOf(path) \notin fs.dirs THEN [fs |-> fs, exit |-> 1]
    ELSE [fs |-> [fs EXCEPT !.files[path] = DecodeString(b64 \o "\n")], exit |-> 0]

\* The remote command of CreateFile: mkdir -p dir && echo b64 | base64 -d > path.
CreateCommand(fs, dir, b64, path) ==
    LET made == MkdirP(fs, dir)
    IN IF made.exit # 0 THEN made ELSE WriteDecoded(made.fs, b64, path)

NoCreateRes == [kind |-> "none", path |-> "", content |-> "", err |-> "nil",
                before |-> Missing, trip |-> "none"]

CreateIdle ==
    /\ cFs = [dirs |-> {"/", "."}, files |-> [p \in CreatePaths |-> Missing]]
    /\ cRes = NoCreateRes

\* A target on which each path is absent or holds "b"; a file is there only
\* when its directory is.
CreateInit ==
    /\ cFs \in {fs \in [dirs : {{"/", "."}, {"/", ".", "/w"}, {"/", ".", "/w", "/w/d"}},
                        files : [CreatePaths -> {Missing, "b"}]] :
                   \A p \in CreatePaths :
                       fs.files[p] # Missing => ParentOf(p) \in fs.dirs}
    /\ cRes = NoCreateRes

\* CreateFile(path, content): one round trip that ends as t says.
CreateFile(path, content, t) ==
    /\ LET b64 == EncodeToString(content)
           dir == pathDir(path)
           ran == CreateCommand(cFs, dir, b64, path)
           r == ExecResult(t, ran.exit, "")
       IN /\ cFs' = IF t = "ok" THEN ran.fs ELSE cFs
          /\ cRes' = [kind |-> "create", path |-> path, content |-> content,
                      before |-> cFs.files[path], trip |-> t,
                      err |-> IF r.err # "nil" THEN "create file"
                              ELSE IF r.exitCode # 0 THEN "create file failed"
                              ELSE "nil"]
    /\ UNCHANGED notCreate

CreateNext == \E path \in CreatePaths, content \in CreateContents, t \in Transport :
                 CreateFile(path, content, t)

\* ------------------------------------------------------------------------
\* WriteSession
\* ------------------------------------------------------------------------

\* What callers type: nothing, text, text and keys, keys only, an unknown
\* token, and inputs that hold the marker byte.
WriteInputs == {"", "ls", "ls{enter}", "{up}{down}", "{foo}{left}ls",
                NUL \o "ls", NUL \o "Up;id", "ls" \o NUL}

\* The command WriteSession builds for one segment.
sendKeysCommand(name, seg) ==
    IF HasPrefix(seg, NUL)
    THEN "tmux send-keys -t " \o shellQuote(name) \o " " \o SubSeq(seg, 2, Len(seg))
    ELSE "tmux send-keys -t " \o shellQuote(name) \o " " \o shellQuote(seg)

\* A command that holds the byte 0x00 cannot be handed to the local client:
\* starting it fails, which Exec returns as an error.
LocalRun(cmd, t) == IF Contains(cmd, NUL) THEN "err" ELSE t

\* What the target's shell does with a command of WriteSession: the first
\* command is tmux send-keys, which needs the session; what follows a ";" is
\* run after it, and the exit code is that of the last command.
RemoteSendKeys(cmd, live) ==
    LET parsed == ShellParse(cmd).cmds
        first == parsed[1]
    IN [keys |-> IF live THEN SubSeq(first, 5, Len(first)) ELSE <<>>,
        ran |-> Tail(parsed),
        code |-> IF Len(parsed) > 1 THEN 0 ELSE IF live THEN 0 ELSE 1]

\* A variant that goes on to the next segment whatever the round trip returned.
WriteAfterIgnoringFailure(op, r) ==
    IF op.i = Len(op.segs) THEN [op EXCEPT !.pc = "done", !.i = op.i + 1]
    ELSE [op EXCEPT !.i = op.i + 1]

\* The loop of WriteSession after the round trip of segment op.i returned r.
WriteAfter(op, r) ==
    IF r.err # "nil" THEN [op EXCEPT !.pc = "done", !.err = "write session"]
    ELSE IF r.exitCode # 0 THEN [op EXCEPT !.pc = "done", !.err = "write session failed"]
    ELSE IF op.i = Len(op.segs) THEN [op EXCEPT !.pc = "done", !.i = op.i + 1]
    ELSE [op EXCEPT !.i = op.i + 1]

NoWrite == [pc |-> "idle", id |-> "", input |-> "", segs |-> <<>>, i |-> 1, err |-> "nil"]

WriteIdle ==
    /\ wOp = NoWrite /\ wSent = <<>> /\ wDelivered = <<>> /\ wRan = <<>>
    /\ wLive = FALSE

WriteInit ==
    /\ wOp = NoWrite /\ wSent = <<>> /\ wDelivered = <<>> /\ wRan = <<>>
    /\ wLive \in BOOLEAN

\* WriteSession(id, input) is called and splits the input.
WriteSessionCall(id, input, order) ==
    /\ wOp.pc \in {"idle", "done"}
    /\ LET segments == parseInput(input, order)
       IN wOp' = [pc |-> IF segments = <<>> THEN "done" ELSE "loop",
                  id |-> id, input |-> input, segs |-> segments, i |-> 1,
                  err |-> "nil"]
    /\ wSent' = <<>> /\ wDelivered' = <<>> /\ wRan' = <<>>
    /\ UNCHANGED wLive
    /\ UNCHANGED notWrite

\* One iteration of the loop: the round trip of segment wOp.i.
WriteSessionSend(t) ==
    /\ wOp.pc = "loop"
    /\ LET cmd == sendKeysCommand(tmuxSessionName(wOp.id), wOp.segs[wOp.i])
           lt == LocalRun(cmd, t)
           remote == RemoteSendKeys(cmd, wLive)
           r == ExecResult(lt, remote.code, "")
       IN /\ wSent' = Append(wSent, [cmd |-> cmd, seg |-> wOp.segs[wOp.i], r |-> r,
                                     keys |-> IF lt = "ok" THEN remote.keys ELSE <<>>])
          /\ wDelivered' = IF lt = "ok" THEN wDelivered \o remote.keys ELSE wDelivered
          /\ wRan' = IF lt = "ok" THEN wRan \o remote.ran ELSE wRan
          /\ wOp' = WriteAfter(wOp, r)
    /\ UNCHANGED wLive
    /\ UNCHANGED notWrite

\* The session is started or ends while WriteSession is at work.
WriteTargetChanges ==
    /\ wLive' = ~wLive
    /\ UNCHANGED <<wOp, wSent, wDelivered, wRan>>
    /\ UNCHANGED notWrite

WriteNext ==
    \/ \E id \in SessionIDs, input \in WriteInputs, order \in Orders :
          WriteSessionCall(id, input, order)
    \/ \E t \in Transport : WriteSessionSend(t)
    \/ WriteTargetChanges

\* ------------------------------------------------------------------------
\* Concurrent EditFile calls on one file
\* ------------------------------------------------------------------------

\* The contents the file starts with, and what the callers replace by what.
SharedContents == {"ab", "acb"}
SharedOlds == {"a", "b"}
SharedNews == {"x", "yy"}

NoShared == [step |-> "idle", old |-> "", new |-> "", b64 |-> "", read |-> "",
             stale |-> FALSE, err |-> "nil"]

SharedIdle ==
    /\ kStart = "" /\ kFile = ""
    /\ kOp = [c \in Callers |-> NoShared]

SharedInit ==
    /\ kStart \in SharedContents /\ kFile = kStart
    /\ kOp = [c \in Callers |-> NoShared]

\* Caller c calls EditFile(path, oldStr, newStr).
SharedEditFile(c, oldStr, newStr) ==
    /\ kOp[c].step = "idle"
    /\ kOp' = [kOp EXCEPT ![c] = [NoShared EXCEPT !.step = "read", !.old = oldStr,
                                                  !.new = newStr]]
    /\ UNCHANGED <<kStart, kFile>>
    /\ UNCHANGED notShared

\* The read round trip of caller c (one Exec, under the lock), the decoding,
\* the count and the replacement.
SharedEditRead(c, t) ==
    /\ kOp[c].step = "read"
    /\ LET r == ExecResult(t, 0, EncodeToString(kFile) \o "\n")
           contentStr == DecodeString(TrimSpace(r.stdout))
           count == Count(contentStr, kOp[c].old)
           err == IF r.err # "nil" THEN "edit file (read)"
                  ELSE IF r.exitCode # 0 THEN "edit file (read) failed"
                  ELSE IF count = 0 THEN "old_str not found in file"
                  ELSE IF count > 1 THEN "old_str found several times"
                  ELSE "nil"
       IN kOp' = [kOp EXCEPT ![c] =
                    IF err # "nil" THEN [kOp[c] EXCEPT !.step = "done", !.err = err]
                    ELSE [kOp[c] EXCEPT !.step = "write", !.read = contentStr,
                             !.b64 = EncodeToString(Replace(contentStr, kOp[c].old,
                                                            kOp[c].new))]]
    /\ UNCHANGED <<kStart, kFile>>
    /\ UNCHANGED notShared

\* The write round trip of caller c (a second Exec, under the lock again).
\* stale records whether the file was written since c read it.
SharedEditWrite(c, t) ==
    /\ kOp[c].step = "write"
    /\ LET r == ExecResult(t, 0, "")
       IN /\ kFile' = IF t = "ok" THEN DecodeString(kOp[c].b64 \o "\n") ELSE kFile
          /\ kOp' = [kOp EXCEPT ![c] =
                       [kOp[c] EXCEPT !.step = "done", !.stale = (kFile # kOp[c].read),
                                 !.err = IF r.err # "nil" THEN "edit file (write)"
                                         ELSE IF r.exitCode # 0 THEN "edit file (write) failed"
                                         ELSE "nil"]]
    /\ UNCHANGED kStart
    /\ UNCHANGED notShared

SharedNext ==
    \/ \E c \in Callers, oldStr \in SharedOlds, newStr \in SharedNews :
          SharedEditFile(c, oldStr, newStr)
    \/ \E c \in Callers, t \in Transport : SharedEditRead(c, t)
    \/ \E c \in Callers, t \in Transport : SharedEditWrite(c, t)

\* ------------------------------------------------------------------------
\* Glob
\* ------------------------------------------------------------------------

\* The directories and files of the target; a remote shell starts in LoginDir.
TreeDirs == {"/workspaces", "/workspaces/src", "/home"}
TreeFiles == <<"/workspaces/a.go", "/workspaces/src/b.go", "/workspaces/src/c.md",
               "/workspaces/.git/h.go", "/home/x.go", "/home/n.md">>
LoginDir == "/home"

\* What callers ask for.
GlobPatterns == {"*.go", "**/*.go", "*.md"}
GlobPaths == {"", "/workspaces/src", "/missing"}
GlobWorkdirs == {"", "/workspaces/src"}

\* globToFindName: the last component of the pattern.
globToFindName(pattern) == SubSeq(pattern, LastIndex(pattern, "/") + 1, Len(pattern))

\* Whether a file name matches a name pattern "*<suffix>" or a plain name.
NameMatches(namePattern, path) ==
    LET base == SubSeq(path, LastIndex(path, "/") + 1, Len(path))
    IN IF HasPrefix(namePattern, "*")
       THEN LET suffix == SubSeq(namePattern, 2, Len(namePattern))
            IN Len(base) >= Len(suffix)
               /\ SubSeq(base, Len(base) - Len(suffix) + 1, Len(base)) = suffix
       ELSE base = namePattern

\* The files below dir that are not in a .git directory.
Below(dir) ==
    SelectSeq(TreeFiles, LAMBDA f : HasPrefix(f, dir \o "/") /\ ~Contains(f, "/.git/"))

\* "fd --type f --glob pattern --exclude .git" run in dir: fd matches the
\* pattern against file names and refuses one that holds a path separator;
\* without fd the shell reports "command not found".
RunFd(target, dir, pattern) ==
    IF ~target.fd THEN [out |-> <<>>, code |-> 127]
    ELSE IF Contains(pattern, "/") THEN [out |-> <<>>, code |-> 1]
    ELSE [out |-> SelectSeq(Below(dir), LAMBDA f : NameMatches(pattern, f)), code |-> 0]

\* "find . -name name -not -path '*/.git/*'" run in dir.
RunFind(dir, name) ==
    [out |-> SelectSeq(Below(dir), LAMBDA f : NameMatches(name, f)), code |-> 0]

\* "(cd searchPath && fd ... || find . ...) | head -200": the list "cd && fd"
\* is the left side of "||", so find runs when fd fails and also when cd
\* fails, and then in the directory the shell is in.  The pipeline's exit
\* status is that of head.
RunGlobCommand(target, searchPath, pattern) ==
    LET cdOk == searchPath \in TreeDirs
        dir == IF cdOk THEN searchPath ELSE LoginDir
        left == IF cdOk THEN RunFd(target, dir, pattern) ELSE [out |-> <<>>, code |-> 1]
        right == RunFind(dir, globToFindName(pattern))
        out == IF left.code = 0 THEN left.out ELSE left.out \o right.out
    IN [out |-> SubSeq(out, 1, IF Len(out) < HeadLimit THEN Len(out) ELSE HeadLimit),
        ran |-> IF left.code = 0 THEN <<"fd">> ELSE IF cdOk /\ target.fd THEN <<"fd", "find">>
                ELSE <<"find">>,
        code |-> 0]

NoGlob == [step |-> "none", pattern |-> "", path |-> "", searchPath |-> ""]
NoGlobRes == [kind |-> "none", pattern |-> "", path |-> "", searchPath |-> "",
              out |-> <<>>, ran |-> <<>>, err |-> "nil", trip |-> "none"]

GlobIdle ==
    /\ fTarget = [fd |-> TRUE, workdir |-> ""]
    /\ fOp = NoGlob
    /\ fRes = NoGlobRes

GlobInit ==
    /\ fTarget \in [fd : BOOLEAN, workdir : GlobWorkdirs]
    /\ fOp = NoGlob
    /\ fRes = NoGlobRes

\* Glob(pattern, path) is called and picks the search path.
Glob(pattern, path) ==
    /\ fOp.step = "none"
    /\ fOp' = [step |-> "exec", pattern |-> pattern, path |-> path,
               searchPath |-> IF path # "" THEN path
                              ELSE IF fTarget.workdir # "" THEN fTarget.workdir
                              ELSE "/workspaces"]
    /\ fRes' = NoGlobRes
    /\ UNCHANGED fTarget
    /\ UNCHANGED notGlob

\* The round trip of Glob and the mapping of its result.
GlobReturn(t) ==
    /\ fOp.step = "exec"
    /\ LET remote == RunGlobCommand(fTarget, fOp.searchPath, fOp.pattern)
           r == ExecResult(t, remote.code, "")
           err == IF r.err # "nil" THEN "glob"
                  ELSE IF r.exitCode > 1 THEN "glob failed with exit code"
                  ELSE "nil"
       IN fRes' = [kind |-> "glob", pattern |-> fOp.pattern, path |-> fOp.path,
                   searchPath |-> fOp.searchPath,
                   out |-> IF t = "ok" THEN remote.out ELSE <<>>,
                   ran |-> IF t = "ok" THEN remote.ran ELSE <<>>,
                   err |-> err, trip |-> t]
    /\ fOp' = NoGlob
    /\ UNCHANGED fTarget
    /\ UNCHANGED notGlob

GlobNext ==
    \/ \E pattern \in GlobPatterns, path \in GlobPaths : Glob(pattern, path)
    \/ \E t \in Transport : GlobReturn(t)

\* ------------------------------------------------------------------------
\* Specifications
\* ------------------------------------------------------------------------
Init == ExecInit /\ SessIdle /\ EditIdle /\ ToolIdle /\ ParseIdle /\ GrepIdle /\ RewriteIdle /\ CreateIdle /\ WriteIdle /\ SharedIdle /\ GlobIdle

Next == ExecNext

Spec == Init /\ [][Next]_vars

\* Scheduling of Exec: sync.Mutex hands the lock to a goroutine that has waited
\* (its starvation mode passes it to the waiter at the front), so a caller in
\* Lock() cannot be passed over forever; a caller that holds the lock goes on
\* to cmd.Run(); and every round trip terminates.
ExecFairness ==
    \A c \in Callers :
        /\ SF_vars(ExecLock(c))
        /\ WF_vars(ExecStart(c) \/ ExecStartFails(c))
        /\ WF_vars(\E code \in {0} \cup ExitCodes : ExecReturn(c, code))

SpecLive == Init /\ [][Next]_vars /\ ExecFairness

InitSession == SessInit /\ ExecIdle /\ EditIdle /\ ToolIdle /\ ParseIdle /\ GrepIdle /\ RewriteIdle /\ CreateIdle /\ WriteIdle /\ SharedIdle /\ GlobIdle

SpecSession == InitSession /\ [][SessNext]_vars

InitEdit == EditInit /\ ExecIdle /\ SessIdle /\ ToolIdle /\ ParseIdle /\ GrepIdle /\ RewriteIdle /\ CreateIdle /\ WriteIdle /\ SharedIdle /\ GlobIdle

SpecEdit == InitEdit /\ [][EditNext]_vars

InitTool == ToolIdle /\ ExecIdle /\ SessIdle /\ EditIdle /\ ParseIdle /\ GrepIdle /\ RewriteIdle /\ CreateIdle /\ WriteIdle /\ SharedIdle /\ GlobIdle

SpecTool == InitTool /\ [][ToolNext]_vars

InitParse == ParseInit /\ ExecIdle /\ SessIdle /\ EditIdle /\ ToolIdle /\ GrepIdle /\ RewriteIdle /\ CreateIdle /\ WriteIdle /\ SharedIdle /\ GlobIdle

SpecParse == InitParse /\ [][ParseNext]_vars

InitGrep == GrepInit /\ ExecIdle /\ SessIdle /\ EditIdle /\ ToolIdle /\ ParseIdle /\ RewriteIdle /\ CreateIdle /\ WriteIdle /\ SharedIdle /\ GlobIdle

SpecGrep == InitGrep /\ [][GrepNext]_vars

InitRewrite == RewriteInit /\ ExecIdle /\ SessIdle /\ EditIdle /\ ToolIdle /\ ParseIdle /\ GrepIdle /\ CreateIdle /\ WriteIdle /\ SharedIdle /\ GlobIdle

SpecRewrite == InitRewrite /\ [][RewriteNext]_vars

InitCreate == CreateInit /\ ExecIdle /\ SessIdle /\ EditIdle /\ ToolIdle /\ ParseIdle /\ GrepIdle /\ RewriteIdle /\ WriteIdle /\ SharedIdle /\ GlobIdle

SpecCreate == InitCreate /\ [][CreateNext]_vars

InitGlob == GlobInit /\ ExecIdle /\ SessIdle /\ EditIdle /\ ToolIdle /\ ParseIdle /\ GrepIdle /\ RewriteIdle /\ CreateIdle /\ WriteIdle /\ SharedIdle

SpecGlob == InitGlob /\ [][GlobNext]_vars

InitShared == SharedInit /\ ExecIdle /\ SessIdle /\ EditIdle /\ ToolIdle /\ ParseIdle /\ GrepIdle /\ RewriteIdle /\ CreateIdle /\ WriteIdle /\ GlobIdle

SpecShared == InitShared /\ [][SharedNext]_vars

InitWrite == WriteInit /\ ExecIdle /\ SessIdle /\ EditIdle /\ ToolIdle /\ ParseIdle /\ GrepIdle /\ RewriteIdle /\ CreateIdle /\ SharedIdle /\ GlobIdle

SpecWrite == InitWrite /\ [][WriteNext]_vars

\* ------------------------------------------------------------------------
\* Claims checked under Spec
\* ------------------------------------------------------------------------

\* C1: for one Client at most one Exec round trip is in flight at any time: the
\* local child processes that carry the remote commands never run at the same
\* time, the one that runs belongs to the holder of mu, and what Exec returns to
\* a caller comes from that caller's own command.
C1_OneRoundTripInFlight ==
    /\ Cardinality(child) <= 1
    /\ \A c \in child : mu = c
    /\ \A c \in Callers : pc[c] \in {"built", "running"} => mu = c
    /\ \A c \in Callers : ret[c].from \in {NoCaller, c}

\* C1 witness: one caller's command is running while another caller waits in Lock().
C1_Witness ==
    \E c, d \in Callers : c # d /\ c \in child /\ pc[d] = "lock"

\* C2: if SetupMultiplexing fails at any of its steps, the Client ends in
\* non-multiplexed mode: sshConfigPath is empty and every later Exec builds the
\* per-call "gh codespace ssh" command line, while the server keeps running.
C2_FailedSetupFallsBack ==
    (phase = "serving" /\ setupStep \notin {"none", "ok"}) =>
        /\ sshConfigPath = ""
        /\ \A c \in Callers : execPath[c] # "ssh"

\* The moves of one caller through Exec: Lock, the command line, one cmd.Run,
\* the return.
ExecMoves == {<<"idle", "lock">>, <<"lock", "built">>, <<"built", "running">>,
              <<"built", "idle">>, <<"running", "idle">>}

\* C25: there is no retry and no reconnection: each Exec call starts at most
\* one local client for one remote attempt and returns its outcome, and no step
\* of Exec changes the Client: once SetupMultiplexing has returned, the mode
\* (sshConfigPath set or empty), the host alias and the control socket stay as
\* they are, also after a failed round trip.
C25_OneAttemptAndClientUnchanged ==
    [][/\ phase = "serving" =>
             /\ phase' = phase /\ setupResult' = setupResult
             /\ sshConfigPath' = sshConfigPath
             /\ sshHost' = sshHost
             /\ controlSocket' = controlSocket
       /\ \A c \in Callers :
             /\ pc'[c] # pc[c] => <<pc[c], pc'[c]>> \in ExecMoves
             /\ c \in child' \ child => (pc[c] = "built" /\ pc'[c] = "running")
             /\ (pc[c] # "idle" /\ pc'[c] = "idle") =>
                   (ret'[c].from = c /\ ret'[c].err # "none")
             /\ ret'[c] # ret[c] => pc'[c] # pc[c]]_vars

\* C25 witness: in multiplexed mode a caller's round trip failed, and the next
\* call still builds the multiplexed command line.
C25_Witness ==
    \E c, d \in Callers :
        /\ c # d
        /\ pc[c] = "idle" /\ ret[c].from = c /\ ret[c].exitCode # 0
        /\ pc[d] = "built" /\ execPath[d] = "ssh"
        /\ sshConfigPath = ConfigPathOf /\ sshHost = HostAlias

\* C28: Exec releases mu on every return path (success, non-zero exit, failure
\* to start the local client, cancellation, which returns exit code -1 and a
\* cancellation error), and mu is only taken when it is free, by a caller that
\* does not hold it; hence, round trips terminating, every caller waiting in
\* Lock() eventually obtains the lock.
C28_LockReleasedAndObtained ==
    /\ [][\A c \in Callers :
             /\ (pc[c] \in {"built", "running"} /\ pc'[c] = "idle") =>
                   (mu = c /\ mu' = NoCaller)
             /\ (mu' = c /\ mu # c) => (mu = NoCaller /\ pc[c] = "lock")
             /\ (ret'[c] # ret[c] /\ ret'[c].err = "cancelled") =>
                   ret'[c].exitCode = -1]_vars
    /\ \A c \in Callers : (pc[c] = "lock") ~> (pc[c] = "built")

\* C28 witness: a caller holds the lock after a cancelled call of another
\* caller has returned.
C28_Witness ==
    \E c, d \in Callers :
        /\ c # d
        /\ pc[d] = "idle" /\ ret[d].err = "cancelled" /\ ret[d].exitCode = -1
        /\ pc[c] = "built" /\ mu = c

\* ------------------------------------------------------------------------
\* Claims checked under SpecSession
\* ------------------------------------------------------------------------

\* C3: StartSession(id, command), for any command, called with an unused id on a
\* target that has tmux (and with working round trips), returns success, and the
\* session then stays registered until StopSession(id) is called.
C3_StartSucceedsAndSessionStays ==
    /\ (sRes.kind = "start" /\ sRes.pre) => sRes.err = "nil"
    /\ \A id \in started : Exists(tmuxSessionName(id))

\* C10: ListSessions returns only lines of sessions whose name starts with
\* "copilot-", whatever other sessions exist; when the round trip works it
\* returns exactly those, without error, also when there are none (an empty
\* result, which remote_list_bash reports as a success).
C10_ListOnlyPrefixed ==
    sRes.kind = "list" =>
        /\ \A l \in sRes.lines : HasPrefix(l, tmuxPrefix)
        /\ sRes.pre =>
              /\ sRes.err = "nil"
              /\ sRes.lines =
                    {ListLine(n) : n \in {m \in sRes.seen : HasPrefix(m, tmuxPrefix)}}
              /\ (sRes.lines = {}) = (sRes.out = "")
              /\ ~listBashHandler(sRes.out, sRes.err).IsError
              /\ sRes.lines = {} =>
                    listBashHandler(sRes.out, sRes.err).Text = "No active sessions."

\* C10 witness: a listing taken while both foreign sessions and a session of the
\* Client exist.
C10_Witness ==
    /\ sRes.kind = "list" /\ sRes.pre
    /\ ForeignNames \subseteq sRes.seen
    /\ sRes.lines # {}

\* What remote_stop_bash returns for a StopSession(id) that returned err.
StopEnvelope(id, err) ==
    stopBashHandler([shellId |-> JStr(id)], Outcome("", "", 0, err)).env[1]

\* C17: StopSession(id), with a working round trip, removes exactly the session
\* named "copilot-" + id when it exists and leaves every other session
\* untouched; when no such session exists (for example on a second
\* StopSession(id)) it returns an error, which remote_stop_bash delivers as an
\* error envelope rather than a success.
C17_StopRemovesExactlyTheNamedSession ==
    [][\A id \in SessionIDs :
          StopSession(id, "ok") =>
              LET name == tmuxSessionName(id)
              IN IF Exists(name)
                 THEN /\ sessions' = WithoutSession(name)
                      /\ sRes'.err = "nil"
                      /\ ~StopEnvelope(id, sRes'.err).IsError
                 ELSE /\ sessions' = sessions
                      /\ sRes'.err # "nil"
                      /\ StopEnvelope(id, sRes'.err).IsError]_vars

\* The part of C17 about the session that carries the name: when it exists it is
\* the one removed, and the call and the tool succeed.
C17_NamedSessionIsRemoved ==
    [][\A id \in SessionIDs :
          (StopSession(id, "ok") /\ Exists(tmuxSessionName(id))) =>
              /\ sessions' = WithoutSession(tmuxSessionName(id))
              /\ ~StopEnvelope(id, sRes'.err).IsError]_vars

\* ReadSession found no session with the name of its id when it was called; no
\* call that could create one runs while it is in progress.
ReadWithoutSession == sRes.kind = "read" /\ ~sRes.pre

\* C18, the marker: when the last round trip of ReadSession works and the named
\* session is there, the result is the captured pane, with "[session exited]"
\* appended exactly when the command of the session has terminated.
C18_MarkerIffTerminated ==
    [][(ReadListPanes("ok") /\ Exists(tmuxSessionName(sOp.id))) =>
          /\ sRes'.err = "nil"
          /\ sRes'.out = IF sessions[tmuxSessionName(sOp.id)].pane = "dead"
                         THEN sOp.out \o exitedMarker ELSE sOp.out]_vars

\* C18: ReadSession(id) fails with a not-found error when no session named
\* "copilot-" + id is registered remotely; otherwise it returns the lines of the
\* session's pane, with the marker "[session exited]" appended exactly when the
\* driven command has terminated and absent while it is still running.
C18_ReadFailsWithoutSessionElseMarks ==
    /\ [](ReadWithoutSession => sRes.err # "nil")
    /\ C18_MarkerIffTerminated

\* C22: session identifiers are unique within a Connection. A step registers a
\* session under a Client name only as the spawn of a StartSession, under
\* "copilot-" + its id and only when no session of that name is registered; a
\* start whose name is registered (a second start with the same caller-supplied
\* id, or with the id generated in the same millisecond) is refused with an
\* error and leaves the registered session as it is; and distinct ids give
\* distinct remote names.
C22_SessionIdsAreUnique ==
    [][/\ \A n \in DOMAIN sessions' \ DOMAIN sessions :
             HasPrefix(n, tmuxPrefix) =>
                 /\ sOp.kind = "start" /\ sOp.step = "spawn"
                 /\ n = tmuxPrefix \o sOp.id
                 /\ \A id \in SessionIDs \ {sOp.id} : tmuxSessionName(id) # n
       /\ \A n \in DOMAIN sessions \cap DOMAIN sessions' :
             sessions'[n].cmd = sessions[n].cmd
       /\ (/\ sOp.kind = "start" /\ sOp.step = "spawn"
           /\ Exists(tmuxPrefix \o sOp.id) /\ sOp' # sOp) =>
             (sOp'.kind = "none" /\ sRes'.err # "nil")]_vars

\* C22 witness: a second StartSession with the id of a registered session was
\* refused, and the session of the first is still registered.
C22_Witness ==
    /\ sRes.kind = "start" /\ sRes.err = "start session failed"
    /\ sRes.id \in started
    /\ Exists(tmuxSessionName(sRes.id))
    /\ sessions[tmuxSessionName(sRes.id)].remain

\* The errors with which ensureTmux gives up.
EnsureTmuxErrors == {"installing tmux", "failed to install tmux", "tmux still not available"}

\* C24: StartSession first checks that tmux exists on the target; when it is
\* missing it makes one install attempt and checks again; when the install
\* fails or tmux is still missing, StartSession returns an error of ensureTmux
\* and never issues the spawn command, so no session is created.
C24_NoSpawnWithoutTmux ==
    [][/\ (sOp.kind = "none" /\ sOp'.kind = "start") => sOp'.step = "check"
       /\ (sOp.kind = "start" /\ sOp.step = "check" /\ sOp' # sOp) =>
             /\ sOp'.kind = "start" /\ sOp'.step \in {"spawn", "install"}
             /\ ~tmuxInstalled => sOp'.step = "install"
             /\ sessions' = sessions
       /\ (sOp.kind = "start" /\ sOp.step = "install" /\ sOp' # sOp) =>
             /\ \/ sOp'.kind = "start" /\ sOp'.step = "verify"
                \/ sOp'.kind = "none" /\ sRes'.err \in EnsureTmuxErrors
             /\ sessions' = sessions
       /\ (\E t \in Transport : EnsureTmuxInstall(t, "fail")) =>
             (sOp'.kind = "none" /\ sRes'.err \in EnsureTmuxErrors)
       /\ (sOp.kind = "start" /\ sOp.step = "verify" /\ sOp' # sOp) =>
             /\ \/ sOp'.kind = "start" /\ sOp'.step = "spawn" /\ tmuxInstalled
                \/ sOp'.kind = "none" /\ sRes'.err \in EnsureTmuxErrors
             /\ sessions' = sessions
       /\ (sOp'.kind = "start" /\ sOp'.step = "spawn") => tmuxInstalled'
       /\ (\E n \in DOMAIN sessions' \ DOMAIN sessions : HasPrefix(n, tmuxPrefix)) =>
             (sOp.kind = "start" /\ sOp.step = "spawn" /\ tmuxInstalled)
       /\ sRes'.err \in EnsureTmuxErrors =>
             (sRes'.kind = "start" /\ (sRes' # sRes => sessions' = sessions))]_vars

\* C24 witness: tmux was missing, the install attempt changed nothing, and
\* StartSession returned the error of the second check with no session created.
C24_Witness ==
    /\ sRes.kind = "start" /\ sRes.err = "tmux still not available"
    /\ ~tmuxInstalled
    /\ sessions = [n \in {} |-> 0]

\* C30: ReadSession returns the "does not exist" error only when the session
\* is not registered on the target; when the round trip of the existence check
\* itself fails, it reports that failure and not a not-found error.
C30_NotFoundOnlyWhenNotRegistered ==
    [][(/\ sOp.kind = "read" /\ sOp.step = "has"
        /\ sRes'.kind = "read" /\ sRes'.err = "does not exist") =>
            ~Exists(tmuxPrefix \o sOp.id)]_vars

\* The part of C30 that holds: the same statement for an existence check whose
\* round trip reached the target.
C30_HoldsWhenRoundTripWorks ==
    [][(ReadHasSession("ok") /\ sRes'.err = "does not exist") =>
            ~Exists(tmuxPrefix \o sOp.id)]_vars

\* ------------------------------------------------------------------------
\* Claims checked under SpecEdit
\* ------------------------------------------------------------------------

\* The number of places at which sub occurs in s.
Occurrences(s, sub) == Cardinality({i \in 1..(Len(s) + 1) : OccursAt(s, sub, i)})

\* The last EditFile call found the file and its read round trip worked.
EditReadOk ==
    /\ eRes.kind = "edit"
    /\ eRes.before # Missing
    /\ eRes.trips # <<>> /\ eRes.trips[1] = "ok"

\* The last EditFile call found the file and all its round trips worked.
EditTripsOk == EditReadOk /\ \A k \in DOMAIN eRes.trips : eRes.trips[k] = "ok"

\* C4 as stated: when old occurs exactly once in p's content, EditFile(p, old,
\* new) succeeds and p's content afterwards contains new exactly once and old
\* zero times.
C4_EditShowsNewOnceOldNever ==
    (EditTripsOk /\ Occurrences(eRes.before, eRes.old) = 1) =>
        /\ eRes.err = "nil"
        /\ Occurrences(files[eRes.path], eRes.new) = 1
        /\ Occurrences(files[eRes.path], eRes.old) = 0

\* C4 as amended: when old occurs exactly once in p's content and both round
\* trips work, EditFile(p, old, new) succeeds and p's content afterwards is the
\* content before with that occurrence of old replaced by new, so it contains
\* new at least once.
C4_EditReplacesTheOccurrence ==
    (EditTripsOk /\ Occurrences(eRes.before, eRes.old) = 1) =>
        /\ eRes.err = "nil"
        /\ Len(eRes.trips) = 2
        /\ \E i \in 1..(Len(eRes.before) + 1) :
              /\ OccursAt(eRes.before, eRes.old, i)
              /\ files[eRes.path] =
                    SubSeq(eRes.before, 1, i - 1) \o eRes.new
                      \o SubSeq(eRes.before, i + Len(eRes.old), Len(eRes.before))
        /\ Contains(files[eRes.path], eRes.new)

\* C4 witness: a successful edit of a unique occurrence, between two different
\* non-empty strings, in a file that holds more than old.
C4_Witness ==
    /\ EditTripsOk /\ eRes.err = "nil"
    /\ Occurrences(eRes.before, eRes.old) = 1
    /\ eRes.old # "" /\ eRes.new # "" /\ eRes.old # eRes.new
    /\ Len(eRes.before) > Len(eRes.old)

\* C5: EditFile returns the not-found error when old occurs zero times in p's
\* content and the ambiguous-match error when it occurs two or more times; in
\* both cases no write round trip is issued and the content is unchanged.
C5_NotFoundOrAmbiguousLeavesFile ==
    EditReadOk =>
        /\ Occurrences(eRes.before, eRes.old) = 0 =>
              /\ eRes.err = "old_str not found in file"
              /\ Len(eRes.trips) = 1
              /\ files[eRes.path] = eRes.before
        /\ Occurrences(eRes.before, eRes.old) >= 2 =>
              /\ eRes.err = "old_str found several times"
              /\ Len(eRes.trips) = 1
              /\ files[eRes.path] = eRes.before

\* ------------------------------------------------------------------------
\* Claims checked under SpecTool
\* ------------------------------------------------------------------------

\* The envelope the handler returned, the executor calls it made, the last one.
Envelope == call.h.env[1]
Calls == call.h.calls
LastCall == Calls[Len(Calls)]

\* The arguments each tool requires.
Required(tool) ==
    CASE tool = "remote_view" -> {"path"}
      [] tool = "remote_edit" -> {"path", "old_str", "new_str"}
      [] tool = "remote_create" -> {"path", "file_text"}
      [] tool = "remote_bash" -> {"command"}
      [] tool \in {"remote_write_bash", "remote_read_bash", "remote_stop_bash"} -> {"shellId"}
      [] tool \in {"remote_grep", "remote_glob"} -> {"pattern"}
      [] OTHER -> {}

\* The required arguments of the handled call that are missing or not a string.
FaultyRequired == {k \in Required(call.tool) : call.args[k].t # "string"}

\* C6: every tool handler, for every request and every executor outcome, returns
\* a nil Go error together with exactly one result envelope, which is either a
\* success payload or an error payload carrying the message.
C6_HandlersReturnOneEnvelope ==
    call.tool # "none" =>
        /\ call.h.err = "nil"
        /\ Len(call.h.env) = 1
        /\ Envelope.IsError \in BOOLEAN
        /\ Envelope.IsError => Envelope.Text # ""
        /\ (Envelope.IsError /\ Calls # <<>>) => Envelope.Text = LastCall.ret.err

\* C6 witness: remote_edit answered an ambiguous edit with an error envelope.
C6_Witness ==
    /\ call.tool = "remote_edit"
    /\ Calls # <<>>
    /\ LastCall.ret.err = "old_str found 2 times, must be unique"
    /\ call.h.err = "nil"
    /\ call.h.env = <<toolError("old_str found 2 times, must be unique")>>

\* C7: for every tool, when a required argument is missing or is not a string,
\* the handler returns the error envelope without any call to the executor,
\* whichever of the required arguments is the faulty one.
C7_FaultyRequiredArgumentStopsTheCall ==
    (call.tool # "none" /\ FaultyRequired # {}) =>
        /\ call.h.err = "nil"
        /\ Len(call.h.env) = 1
        /\ Envelope.IsError
        /\ \E k \in FaultyRequired :
              Envelope.Text \in {"missing required parameter: " \o k,
                                 "parameter " \o k \o " must be a string"}
        /\ Calls = <<>>
        /\ call.h.slept = 0

\* C7 witness: remote_edit with only its third required argument faulty.
C7_Witness ==
    /\ call.tool = "remote_edit"
    /\ FaultyRequired = {"new_str"}
    /\ call.args["new_str"].t = "number"
    /\ Envelope = toolError("parameter new_str must be a string")
    /\ Calls = <<>>

\* Whether value v is a valid value of field k.
ValidField(k, v) ==
    CASE k = "view_range" ->
            /\ v.t = "array"
            /\ Len(v.a) = 2
            /\ \A i \in 1..2 : v.a[i].t = "number" /\ v.a[i].n % 10 = 0
      [] k = "mode" -> v.t = "string" /\ v.s \in {"sync", "async"}
      [] k = "delay" -> v.t = "number"
      [] OTHER -> v.t = "string"

\* The fields of the handled call that carry an invalid value.
InvalidFields ==
    {k \in DOMAIN call.args : call.args[k].t # "absent" /\ ~ValidField(k, call.args[k])}

\* C8 as stated: any tool call that carries an invalid field value, optional
\* fields included, yields an error envelope before any remote dispatch.
C8_InvalidFieldIsRejected ==
    (call.tool # "none" /\ InvalidFields # {}) =>
        /\ Envelope.IsError
        /\ Calls = <<>>

\* Whether the handled call asks for async mode.
AsyncMode == call.args["mode"].t = "string" /\ call.args["mode"].s = "async"

\* C8 as amended: only the required arguments are validated. A call whose
\* required arguments are all strings is dispatched to the executor whatever
\* its optional fields hold, and its envelope is an error only when the
\* executor returned one. An optional field of the wrong type counts as absent:
\* a view_range that is not an array of two numbers gives the whole file (two
\* numbers are truncated to integers), a mode other than "async" gives a sync
\* call, a shellId that is not a string gives a generated id, a delay that is
\* not a number gives two seconds.
C8_OptionalFieldsAreNotValidated ==
    (call.tool # "none" /\ FaultyRequired = {}) =>
        /\ call.tool # "open_shell" => Calls # <<>>
        /\ (Envelope.IsError /\ call.tool # "open_shell") => Envelope.Text = LastCall.ret.err
        /\ call.tool = "remote_view" =>
              LET v == call.args["view_range"]
              IN /\ Calls[1].m = "ViewFile"
                 /\ Calls[1].range =
                      IF v.t = "array" /\ Len(v.a) = 2 /\ \A i \in 1..2 : v.a[i].t = "number"
                      THEN <<Trunc(v.a[1].n), Trunc(v.a[2].n)>>
                      ELSE <<>>
                 /\ v = JArr(<<JNum(15), JNum(-10)>>) => Calls[1].range = <<1, -1>>
        /\ (call.tool = "remote_bash" /\ ~AsyncMode) => Calls[1].m = "RunBash"
        /\ (call.tool = "remote_bash" /\ AsyncMode /\ call.args["shellId"].t # "string") =>
              /\ Calls[1].m = "StartSession"
              /\ HasPrefix(Calls[1].s[1], "sh-")
        /\ (/\ call.tool \in {"remote_write_bash", "remote_read_bash"}
            /\ call.args["delay"].t # "number"
            /\ LastCall.m = "ReadSession") => call.h.slept = 20

\* C8 witness: remote_view with a view_range that is a string read the whole
\* file and answered with a success envelope.
C8_Witness ==
    /\ call.tool = "remote_view"
    /\ call.args["view_range"] = JStr("1-3")
    /\ Calls # <<>>
    /\ Calls[1].range = <<>>
    /\ ~Envelope.IsError

\* C9: a non-zero remote exit code is data, not failure. RunBash returns
\* (stdout, stderr, exitCode) with a nil error for every exit code, and
\* remote_bash in sync mode then returns a success envelope whose text is
\* stdout, then stderr under "STDERR:", then "[exit code: N]" when N is not
\* zero; a remote_bash call that carries a command returns an error envelope
\* only when the executor returned an error.
C9_NonZeroExitIsData ==
    /\ (call.tool = "remote_bash" /\ call.remote.t # "none") =>
          LET run == Calls[1].ret
              errPart == IF run.stderr = "" THEN ""
                         ELSE (IF run.out = "" THEN "" ELSE "\n") \o "STDERR:\n" \o run.stderr
              exitPart == IF run.exitCode = 0 THEN ""
                          ELSE "\n[exit code: " \o Itoa(run.exitCode) \o "]"
          IN /\ call.remote.t = "ok" =>
                   /\ run.err = "nil"
                   /\ run.exitCode = call.remote.code
                   /\ run.out = call.remote.out
                   /\ run.stderr = call.remote.errOut
             /\ call.remote.t = "exit255" => (run.err = "nil" /\ run.exitCode = 255)
             /\ Envelope.IsError <=> run.err # "nil"
             /\ run.err = "nil" => Envelope.Text = run.out \o errPart \o exitPart
    /\ (call.tool = "remote_bash" /\ FaultyRequired = {} /\ Envelope.IsError) =>
          (LastCall.ret.err # "nil" /\ Envelope.Text = LastCall.ret.err)

\* C9 witness: a command that printed on both streams and exited with 2.
C9_Witness ==
    /\ call.tool = "remote_bash"
    /\ call.remote = [t |-> "ok", code |-> 2, out |-> "x", errOut |-> "x"]
    /\ call.h.err = "nil"
    /\ call.h.env = <<toolSuccess("x\nSTDERR:\nx\n[exit code: 2]")>>

C20_AsyncStartsWaitsThenReads ==
    (call.tool = "remote_bash" /\ FaultyRequired = {} /\ AsyncMode) =>
        LET given == call.args["shellId"]
            id == Calls[1].s[1]
        IN /\ Calls[1].m = "StartSession"
           /\ Calls[1].s = <<id, call.args["command"].s>>
           /\ IF given.t = "string" /\ given.s # "" THEN id = given.s
              ELSE HasPrefix(id, "sh-") /\ Len(id) > 3
           /\ IF Calls[1].ret.err # "nil"
              THEN /\ Calls = <<Calls[1]>>
                   /\ call.h.slept = 0
                   /\ Envelope = toolError(Calls[1].ret.err)
              ELSE /\ Len(Calls) = 3
                   /\ Calls[2] = Sleep(10)
                   /\ Calls[3].m = "ReadSession" /\ Calls[3].s = <<id>>
                   /\ call.h.slept = 10
                   /\ Envelope =
                        toolSuccess("Started async session: " \o id \o "\n\n" \o Calls[3].ret.out)

\* C20 witness: an async call without a shellId started a session under a
\* generated id, waited, read "hello" and answered with both.
C20_Witness ==
    /\ call.tool = "remote_bash" /\ AsyncMode
    /\ call.args["shellId"] = JAbsent
    /\ Len(Calls) = 3
    /\ Calls[2].m = "time.Sleep"
    /\ Calls[3].ret.out = "hello"
    /\ Envelope = toolSuccess("Started async session: sh-1\n\nhello")

\* ------------------------------------------------------------------------
\* Claims checked under SpecParse
\* ------------------------------------------------------------------------

\* A segment is a key segment when it starts with the marker (WriteSession
\* tells the two kinds apart this way).
IsKeySegment(seg) == HasPrefix(seg, NUL)

\* Whether some token occurs in s.
HoldsToken(s) == \E k \in 1..Len(specialKeys) : Contains(s, specialKeys[k].pattern)

\* The text a segment stands for: the token of a key segment, the segment
\* itself otherwise.
TextOf(seg) ==
    IF \E k \in 1..Len(specialKeys) : seg = NUL \o specialKeys[k].tmuxKey
    THEN LET k == CHOOSE k \in 1..Len(specialKeys) : seg = NUL \o specialKeys[k].tmuxKey
         IN specialKeys[k].pattern
    ELSE seg

RECURSIVE Unparse(_)
Unparse(segments) ==
    IF segments = <<>> THEN "" ELSE TextOf(Head(segments)) \o Unparse(Tail(segments))

\* C11: parseInput returns an ordered list of non-empty segments in which every
\* occurrence of one of the six tokens is a key segment and every other run of
\* characters is a literal segment; replacing each key segment by its token and
\* concatenating all segments reproduces the input exactly, and the result does
\* not depend on the order in which the token table is visited.
C11_ParseInputSplitsAndRoundTrips ==
    pPc = "done" =>
        /\ \A i \in 1..Len(pSegs) : pSegs[i] # ""
        /\ \A i \in 1..Len(pSegs) : ~IsKeySegment(pSegs[i]) => ~HoldsToken(pSegs[i])
        /\ \A i \in 1..Len(pSegs) :
              IsKeySegment(pSegs[i]) =>
                  \E k \in 1..Len(specialKeys) : pSegs[i] = NUL \o specialKeys[k].tmuxKey
        /\ Unparse(pSegs) = pIn
        /\ \A o \in Orders : parseInput(pIn, o) = pSegs
        /\ pIn = "ls{enter}" => pSegs = <<"ls", NUL \o "Enter">>
        /\ pIn = "" => pSegs = <<>>

\* The part of C11 that holds: the same statement for inputs without the
\* marker byte.
C11_HoldsWithoutMarker == ~Contains(pIn, NUL) => C11_ParseInputSplitsAndRoundTrips

\* ------------------------------------------------------------------------
\* Claims checked under SpecGrep
\* ------------------------------------------------------------------------

\* C12: Grep returns at most 200 result lines, each formatted as
\* <path>:<line>:<content>, for every pattern, path and file filter, however
\* many matches exist on the target.
C12_AtMostTwoHundredLines ==
    (gRes.kind = "grep" /\ gRes.err = "nil") =>
        /\ LineCount(gRes.out) <= HeadLimit
        /\ \A i \in 1..Len(gRes.out) : gRes.out[i].named

\* C13: Grep runs the baseline recursive search only when rg is unavailable on
\* the target; when rg is available its outcome, including zero matches among
\* the files the filter selects, is what Grep returns.
C13_FallbackOnlyWithoutRg ==
    (gRes.kind = "grep" /\ gRes.trip = "ok") =>
        /\ (\E i \in 1..Len(gRes.ran) : gRes.ran[i] = "grep") => ~gTarget.rg
        /\ gTarget.rg =>
              /\ gRes.err = "nil"
              /\ gRes.out = RunRg(gTarget, IF gRes.path = "" THEN "." ELSE gRes.path,
                                  gRes.glob).out

\* ------------------------------------------------------------------------
\* Claims checked under SpecRewrite
\* ------------------------------------------------------------------------

\* A server descriptor or a hooks file was returned.
ServerReturned == rOut.kind = "server" /\ ~rOut.nil
HooksReturned == rOut.kind = "hooks" /\ ~rOut.nil

\* C14 as stated: every server descriptor returned by rewriteMCPServerForSSH
\* consists only of type, command and args, and every hook handler contained in
\* a hooks file returned by rewriteHooksForSSH has neither a cwd nor an env
\* field, in both strategies.
C14_NoCwdOrEnvAnywhere ==
    /\ ServerReturned => DOMAIN rOut.desc = {"type", "command", "args"}
    /\ HooksReturned =>
          \A i \in 1..Len(rOut.handlers) : rOut.handlers[i].fields \cap {"cwd", "env"} = {}

\* C14 as amended: every server descriptor returned consists only of type,
\* command and args, and every hook handler with a non-empty bash command in a
\* returned hooks file has neither a cwd nor an env field, in both strategies;
\* a handler without a bash command is not rewritten and is returned as it was,
\* with the cwd and env it had.
C14_RewrittenDescriptorsHaveNoCwdOrEnv ==
    /\ ServerReturned => DOMAIN rOut.desc = {"type", "command", "args"}
    /\ HooksReturned =>
          /\ Len(rOut.handlers) = Len(rIn.handlers)
          /\ \A i \in 1..Len(rOut.handlers) :
                IF rIn.handlers[i].bash # ""
                THEN rOut.handlers[i].fields \cap {"cwd", "env"} = {}
                ELSE rOut.handlers[i] = rIn.handlers[i]

\* C14 witness: in the shell-assembly strategy a handler that had both fields
\* came back with neither.
C14_Witness ==
    /\ HooksReturned
    /\ rIn.remoteBinary = ""
    /\ \E i \in 1..Len(rOut.handlers) :
          /\ rIn.handlers[i].bash # ""
          /\ rIn.handlers[i].fields = {"cwd", "env"}
          /\ rOut.handlers[i].fields = {}

\* The commands a shell should read from "export K=V" bindings.
ExportCommands(env) == [i \in 1..Len(env) |-> <<"export", env[i].k \o "=" \o env[i].v>>]

\* Whether sequence p is a prefix of sequence q.
IsPrefixOf(p, q) == Len(p) <= Len(q) /\ SubSeq(q, 1, Len(p)) = p

\* In the shell-assembly strategy the command string of a server descriptor
\* reads as: cd workdir, one export per binding, exec command args.
C15_ServerValuesAreQuoted ==
    (ServerReturned /\ rIn.remoteBinary = "") =>
        LET parsed == ShellParse(rOut.desc.args[Len(rOut.desc.args)])
        IN /\ ~parsed.special /\ ~parsed.open
           /\ parsed.cmds = <<<<"cd", rIn.workdir>>>> \o ExportCommands(rIn.server.env)
                              \o <<<<"exec", rIn.server.command>> \o rIn.server.args>>

\* In the shell-assembly strategy the bash string of a rewritten handler reads
\* as one gh command whose last word is the remote command, and that reads as:
\* cd directory, one export per binding, then the commands of the handler.
C15_HookValuesAreQuoted ==
    (HooksReturned /\ rIn.remoteBinary = "") =>
        \A i \in 1..Len(rOut.handlers) :
            rIn.handlers[i].bash # "" =>
                LET h == rIn.handlers[i]
                    outer == ShellParse(rOut.handlers[i].bash)
                    words == outer.cmds[1]
                    inner == ShellParse(words[Len(words)])
                    env == IF "env" \in h.fields THEN h.env ELSE <<>>
                IN /\ ~outer.special /\ ~outer.open /\ Len(outer.cmds) = 1
                   /\ SubSeq(words, 1, Len(words) - 1) =
                        <<"gh", "codespace", "ssh", "-c", CodespaceName, "--", "bash", "-c">>
                   /\ ~inner.special /\ ~inner.open
                   /\ inner.cmds = <<<<"cd", RemoteCwd(h, rIn.workdir)>>>>
                                     \o ExportCommands(env) \o ShellParse(h.bash).cmds

\* C15: in the shell-assembly fallback every value interpolated into the
\* synthesized shell command (the working directory, the value of each
\* environment binding, each argument of the original command) is shell-quoted,
\* for server descriptors and hook descriptors alike, so that a value holding
\* spaces, quotes or metacharacters cannot add or alter commands.
C15_FallbackQuotesEveryValue == C15_ServerValuesAreQuoted /\ C15_HookValuesAreQuoted

\* In the structured strategy a server descriptor's args are the helper's exec
\* invocation, each value an argument of its own.
C16_ServerArgsAreStructured ==
    (ServerReturned /\ rIn.remoteBinary # "") =>
        /\ rOut.desc.command = "gh"
        /\ rOut.desc.args =
             <<"codespace", "ssh", "-c", CodespaceName, "--", rIn.remoteBinary, "exec",
               "--workdir", rIn.workdir>>
               \o EnvFlags(rIn.server.env) \o <<"--", rIn.server.command>> \o rIn.server.args

\* In the structured strategy the words of a rewritten handler's command are
\* the helper's exec invocation, each value a word of its own.
C16_HookArgsAreStructured ==
    (HooksReturned /\ rIn.remoteBinary # "") =>
        \A i \in 1..Len(rOut.handlers) :
            rIn.handlers[i].bash # "" =>
                LET h == rIn.handlers[i]
                    parsed == ShellParse(rOut.handlers[i].bash)
                    env == IF "env" \in h.fields THEN h.env ELSE <<>>
                IN /\ ~parsed.special /\ ~parsed.open
                   /\ parsed.cmds =
                        <<<<"gh", "codespace", "ssh", "-c", CodespaceName, "--",
                            rIn.remoteBinary, "exec", "--workdir", RemoteCwd(h, rIn.workdir)>>
                            \o EnvFlags(env) \o <<"--", "bash", "-c", h.bash>>>>

\* C16: in the structured strategy the rewritten command is the helper's exec
\* invocation with --workdir dir and one --env K=V per binding, then --, then
\* the original command and its arguments verbatim; working directory and
\* environment values are separate argument values and are never assembled
\* into a shell string, for server descriptors and hook descriptors alike.
C16_StructuredExecEverywhere == C16_ServerArgsAreStructured /\ C16_HookArgsAreStructured

\* ------------------------------------------------------------------------
\* Claims checked under SpecWrite
\* ------------------------------------------------------------------------

\* Whether a round trip of WriteSession succeeded.
SentOk(k) == wSent[k].r.err = "nil" /\ wSent[k].r.exitCode = 0

RECURSIVE KeysOfSent(_)
KeysOfSent(n) == IF n = 0 THEN <<>> ELSE KeysOfSent(n - 1) \o wSent[n].keys

\* C23: WriteSession makes one key-injection round trip per parsed segment, in
\* segment order, and stops at the first round trip that fails or exits
\* non-zero, returning that error without sending the segments after it; what
\* earlier segments delivered stays delivered; an empty input makes no round
\* trip.
C23_OneRoundTripPerSegmentUntilFailure ==
    LET n == Len(wSent)
    IN /\ n <= Len(wOp.segs)
       /\ \A k \in 1..n :
             /\ wSent[k].seg = wOp.segs[k]
             /\ wSent[k].cmd = sendKeysCommand(tmuxPrefix \o wOp.id, wOp.segs[k])
       /\ \A k \in 1..(n - 1) : SentOk(k)
       /\ wDelivered = KeysOfSent(n)
       /\ wOp.pc = "loop" => (n = wOp.i - 1 /\ \A k \in 1..n : SentOk(k))
       /\ (wOp.pc = "done" /\ wOp.err = "nil") =>
             (n = Len(wOp.segs) /\ \A k \in 1..n : SentOk(k))
       /\ (wOp.pc = "done" /\ wOp.err # "nil") =>
             /\ n >= 1 /\ ~SentOk(n)
             /\ wOp.err = IF wSent[n].r.err # "nil" THEN "write session"
                          ELSE "write session failed"
       /\ (wOp.pc # "idle" /\ wOp.input = "") =>
             (n = 0 /\ wOp.pc = "done" /\ wOp.err = "nil")

\* C23 witness: of three segments the first was delivered, the second failed,
\* and the third was never sent.
C23_Witness ==
    /\ wOp.pc = "done" /\ wOp.err # "nil"
    /\ Len(wOp.segs) = 3 /\ Len(wSent) = 2
    /\ wDelivered = <<"{foo}">>

\* The six key names of specialKeys.
KeyNames == {specialKeys[k].tmuxKey : k \in 1..Len(specialKeys)}

\* What follows the fixed part of a command of WriteSession.
SentWord(k) ==
    LET fixed == "tmux send-keys -t " \o shellQuote(tmuxPrefix \o wOp.id) \o " "
    IN SubSeq(wSent[k].cmd, Len(fixed) + 1, Len(wSent[k].cmd))

\* A word is quoted when the shell reads it as one argument, nothing else, and
\* it is the quoting of that argument.
IsQuoted(word) ==
    LET parsed == ShellParse(word)
    IN /\ ~parsed.open /\ ~parsed.special
       /\ Len(parsed.cmds) = 1 /\ Len(parsed.cmds[1]) = 1
       /\ word = shellQuote(parsed.cmds[1][1])

\* C27: every piece of caller-supplied text WriteSession sends is shell-quoted
\* in the key-injection command, and the only words placed unquoted in it are
\* the six key names, for every input, also one that holds the marker byte; so
\* the target's shell runs nothing but tmux send-keys.
C27_CallerTextIsQuoted ==
    /\ \A k \in 1..Len(wSent) : SentWord(k) \in KeyNames \/ IsQuoted(SentWord(k))
    /\ wRan = <<>>

\* The part of C27 that holds: the same statement for inputs without the
\* marker byte.
C27_HoldsWithoutMarker == ~Contains(wOp.input, NUL) => C27_CallerTextIsQuoted

\* With the marker byte in front, caller text reaches the target's shell
\* unquoted and a command of the caller is run there.
C27_NoInjectedCommand == wRan = <<>>

\* ------------------------------------------------------------------------
\* Claims checked under SpecShared
\* ------------------------------------------------------------------------

\* Two callers whose calls both returned success, with different old strings
\* that each occurred exactly once in the file.
BothEdited(c, d) ==
    /\ c # d
    /\ kOp[c].step = "done" /\ kOp[c].err = "nil"
    /\ kOp[d].step = "done" /\ kOp[d].err = "nil"
    /\ kOp[c].old # kOp[d].old
    /\ Count(kStart, kOp[c].old) = 1 /\ Count(kStart, kOp[d].old) = 1

\* C26: two concurrent EditFile calls on the same file, whose old strings are
\* different, do not overlap and occur exactly once each, both take effect:
\* when both return success the final content holds both new strings, in every
\* interleaving of their read and write round trips.
C26_NoLostUpdate ==
    \A c, d \in Callers :
        BothEdited(c, d) => (Contains(kFile, kOp[c].new) /\ Contains(kFile, kOp[d].new))

\* The part of C26 that holds: the same statement when neither call wrote over
\* a content it had not read.
C26_HoldsWhenNotInterleaved ==
    \A c, d \in Callers :
        (BothEdited(c, d) /\ ~kOp[c].stale /\ ~kOp[d].stale) =>
            (Contains(kFile, kOp[c].new) /\ Contains(kFile, kOp[d].new))

\* ------------------------------------------------------------------------
\* Claims checked under SpecGlob
\* ------------------------------------------------------------------------

\* C29: Glob only returns files found under the requested search path (under
\* the default working directory when no path is given), with fd and with
\* find; when the search path does not exist on the target, it returns no
\* file of any other directory.
C29_OnlyFilesUnderSearchPath ==
    (fRes.kind = "glob" /\ fRes.err = "nil") =>
        /\ fRes.searchPath = (IF fRes.path # "" THEN fRes.path
                              ELSE IF fTarget.workdir # "" THEN fTarget.workdir
                              ELSE "/workspaces")
        /\ \A i \in 1..Len(fRes.out) : HasPrefix(fRes.out[i], fRes.searchPath \o "/")
        /\ fRes.searchPath \notin TreeDirs => fRes.out = <<>>

\* The part of C29 that holds: the same statement for a search path that
\* exists on the target.
C29_HoldsForExistingPath == fRes.searchPath \in TreeDirs => C29_OnlyFilesUnderSearchPath

\* ------------------------------------------------------------------------
\* Claims checked under SpecCreate
\* ------------------------------------------------------------------------

\* The last CreateFile call had a working round trip.
CreateTripOk == cRes.kind = "create" /\ cRes.trip = "ok"

\* After a CreateFile whose round trip worked, the call returned nil, the
\* directories above the path exist and the path holds the content.
C21_CreatedAndWritten ==
    CreateTripOk =>
        /\ cRes.err = "nil"
        /\ DirsOf(ParentOf(cRes.path)) \subseteq cFs.dirs
        /\ cFs.files[cRes.path] = cRes.content

\* A second CreateFile with the arguments of the one before leaves the target
\* as the first left it.
C21_SecondCallChangesNothing ==
    [][\A path \in CreatePaths, content \in CreateContents :
          (/\ CreateTripOk /\ cRes.path = path /\ cRes.content = content
           /\ CreateFile(path, content, "ok")) => cFs' = cFs]_vars

\* C21: CreateFile(path, content) creates missing parent directories and writes
\* content to path, for every absolute path including a file directly under the
\* root directory; on an existing file it replaces the content, and calling it
\* twice with the same arguments leaves the same remote state as calling it
\* once.
C21_CreateFileOverwriteIdempotent ==
    /\ []C21_CreatedAndWritten
    /\ C21_SecondCallChangesNothing

\* The part of C21 that holds: for a path with a directory part that is not
\* empty, CreateFile creates the directories and writes the content, on a
\* missing and on an existing file.
C21_HoldsBelowADirectory ==
    (CreateTripOk /\ pathDir(cRes.path) # "") => C21_CreatedAndWritten

====
